---- MODULE Spec2Model ----
(***************************************************************************)
(* Model of the GoLismero audit orchestration core: one Audit coordinator  *)
(* (golismero/managers/auditmanager.py), the notifier that fans DATA       *)
(* messages out to plugins (golismero/messaging/notifier.py) and the       *)
(* worker bootstrap that runs one plugin call and answers with DATA and    *)
(* ACK messages (golismero/managers/processmanager.py).                    *)
(***************************************************************************)
EXTENDS Integers, Sequences, FiniteSets, TLC

\* ------------------------------------------------------------------ bounds
\* Longest message queue explored.
MaxQueue == 3
\* Most plugin calls in flight (launched, ACK not yet sent).
MaxCalls == 2
\* Largest value of the expected-ACK counter explored.
MaxExpecting == 4
\* Largest value of the followed-links counter explored.
MaxFollowed == 5
\* Most calls one worker process runs.
MaxBootCalls == 2
\* Longest queue of one worker's messages explored.
MaxBootQueue == 5
\* Longest list of targets in an audit configuration.
MaxTargets == 2
\* Most send_msg calls followed.
MaxSent == 3
\* Most run_plugin calls followed.
MaxPmCalls == 3
\* Parts of a pathname given to a pathname check.
MaxDepth == 3
\* Audits passed to one launcher.run call.
MaxAudits == 2
\* Longest data.discovered list of one object.
MaxDiscovered == 2
\* Seconds of wall clock over which audits are created.
MaxClock == 1
\* Audit objects made by one manager.
MaxNewAudits == 2
\* Times the closing of one audit is asked for and fails.
MaxCloses == 1
\* Plugin options on one command line.
MaxOptions == 5

\* --------------------------------------------------------------- universe
\* pluginManager.min_stage / pluginManager.max_stage
MinStage == 1
MaxStage == 2

NoPlugin == "none"

\* Data identities.  t is the audit target.
Items == {"t", "u", "v", "d", "e"}
\* Fixed enumeration order of the database (get_pending_data returns a list).
ItemOrder == <<"t", "u", "v", "d", "e">>

\* data.data_type == TYPE_RESOURCE and data.resource_type == RESOURCE_URL
IsUrl(i) == i \in {"t", "u", "v"}
\* The type tag the notifier maps plugins by.
DataKind(i) == IF IsUrl(i) THEN "url" ELSE "info"
\* data.is_in_scope()
InScope(i) == i \in {"t", "u", "e"}
\* data.discovered : items built alongside this one (cyclic on purpose).
Discovered(i) ==
    CASE i = "u" -> <<"d", "u">>
      [] i = "d" -> <<"e", "u">>
      [] OTHER   -> <<>>

\* scope.get_targets()
Targets == <<"t">>

\* Testing plugins that may be enabled, and the report plugin.
Plugins == {"p1", "p2", "p3", "p4"}
ReportPlugin == "report"
ReportPlugins == {ReportPlugin}
ReportFile == "out"
\* The sets of enabled testing plugins explored: the first three in every
\* combination, and a first-stage plugin with a second-stage plugin that
\* takes what the first does not.
PluginSets == (SUBSET {"p1", "p2", "p3"}) \cup {{"p1", "p4"}}
\* Stage declared by each testing plugin.
StageOf(p) == IF p = "p1" THEN 1 ELSE 2
\* get_accepted_info() : None means every type (p2).
AcceptsAll(p) == p = "p2"
Accepted(p) ==
    IF p \in {"p1", "p3"} THEN {"url"} ELSE IF p = "p4" THEN {"info"} ELSE {}
\* plugin_info.recursive
Recursive(p) == p = "p2"
\* hasattr(plugin, "recv_info")
HasCallback(p) == p # "p3"

\* Result lists the recv_info callback of plugin p may return for input i.
Results(p, i) ==
    IF p = "p1" /\ i = "t" THEN {<<>>, <<"u", "v">>}
    ELSE IF p = "p4" /\ i = "e" THEN {<<>>, <<"u">>}
    ELSE IF i = "u" THEN {<<>>, <<"v">>}
    ELSE {<<>>}
\* audit_config.max_links values explored (0 = unlimited).
MaxLinksChoices == {0, 1, 2}

\* ------------------------------------------------------------------ state
VARIABLES
    registered,             \* plugins registered with the AuditNotifier
    max_links,              \* AuditConfig.max_links
    phase,                  \* "new", "running" (registered) or "closed"
    stored,                 \* identities in the audit database
    stage_mark,             \* highest stage marked finished per identity
    plugin_finished,        \* (identity, plugin) pairs marked processed
    current_stage,          \* Audit.__current_stage
    is_report_started,      \* Audit.__is_report_started
    followed_links,         \* Audit.__followed_links
    show_max_links_warning, \* Audit.__show_max_links_warning
    expecting_ack,          \* Audit.__expecting_ack
    msg_queue,              \* orchestrator message queue (FIFO)
    calls,                  \* plugin calls handed to the process manager
    acks_due,               \* calls whose body ran and whose ACK is not sent
    notified,               \* history: (plugin, item) pairs send_info was called for
    renotified,             \* history: send_info was called again for some pair
    links_admitted,         \* history: new URL resources added by dispatch
    links_dropped,          \* history: a URL resource was dropped
    warnings_sent,          \* history: max-links warnings emitted
    reports_started,        \* history: generate_reports runs
    stop_sent,              \* history: STOP_AUDIT messages emitted
    last,                   \* history: what the last handler did
    b_inline,               \* the worker is the orchestrator process itself
    b_served,               \* plugin calls this worker has run
    b_alive,                \* the worker process has not exited
    b_exit,                 \* exit code of the worker (0 while alive)
    b_call,                 \* history: inputs of the worker's last call
    b_trace,                \* history: what the last call emitted and how it ended
    b_queue,                \* messages of this worker waiting in the queue
    b_acked,                \* calls whose ACK the orchestrator has dequeued
    h_client,               \* per plugin process: its make_request call
    h_slots,                \* per host: the processes holding a slot
    h_cache,                \* network cache: (scheme, key) -> stored pair
    h_closed,               \* remove_audit ran for the first audit
    s_built,                \* "no", "yes" or "aborted": AuditScope(config)
    s_config,               \* history: the audit configuration given
    s_domains,              \* AuditScope.__domains
    s_roots,                \* AuditScope.__roots
    s_addresses,            \* AuditScope.__addresses
    s_web_pages,            \* AuditScope.__web_pages
    s_asked,                \* history: the last target tested for membership
    s_answer,               \* history: what the membership test returned
    x_context,              \* Config._context of the orchestrator process
    x_last,                 \* history: the last operation that switched it
    q_queue,                \* the orchestrator's message queue
    q_taken,                \* history: the messages the consumer has taken
    q_log,                  \* history: every send_msg call and what became of it
    q_dead,                 \* the processes that have exited
    p_max,                  \* OrchestratorConfig.max_process
    p_launcher,             \* ProcessManager.__launcher: "none" or "alive"
    p_proc,                 \* the launcher process
    p_lqueue,               \* the launcher's input queue
    p_pool,                 \* the launcher's pool of worker processes
    p_submitted,            \* calls handed to the pool, in order
    p_finished,             \* calls a pool worker has run to the end
    p_stop,                 \* ProcessManager.stop in progress, and how
    p_calls,                \* run_plugin calls made
    p_enq,                  \* history: everything put on the launcher queue
    p_last,                 \* history: the last run_plugin or stop
    f_in,                   \* history: the pathname given to be sanitized
    f_out,                  \* history: who sanitized it and what came out
    c_run,                  \* history: the launcher.run call and its result
    c_exit,                 \* the exit of the command line process
    i_discovered,           \* per identity: data.discovered of that object
    i_scope,                \* the identities whose is_in_scope() is true
    i_pc,                   \* __dispatch_msg: "message", "loop" or "notify"
    i_db,                   \* identities in the audit database
    i_marked,               \* identities marked finished at max_stage
    i_plugins,              \* data_for_plugins
    i_visited,              \* visited
    i_todo,                 \* primaries whose discoveries are still to intern
    i_queue,                \* queue
    i_adds,                 \* history: the add_data calls of the discovery loop
    m_clock,                \* datetime.now(), in seconds
    m_objects,              \* the Audit objects made, with their databases
    m_audits,               \* AuditManager.__audits: name -> Audit object
    m_cache,                \* audit names with entries in the network cache
    m_last,                 \* the last call on the manager and how it ended
    r_plugins,              \* PriscillaPluginManager.__plugins, its keys
    r_asked,                \* the category of the last get_plugins call
    r_answer,               \* what that call returned or raised
    o_enabled,              \* namespace.enabled_plugins
    o_disabled,             \* namespace.disabled_plugins
    o_parsed,               \* options of the command line parsed so far
    o_last                  \* the last option parsed and how its action ended

vars == <<registered, max_links, phase, stored, stage_mark,
          plugin_finished, current_stage, is_report_started, followed_links,
          show_max_links_warning, expecting_ack, msg_queue, calls, acks_due,
          notified, renotified, links_admitted, links_dropped, warnings_sent,
          reports_started, stop_sent, last,
          b_inline, b_served, b_alive, b_exit, b_call, b_trace, b_queue,
          b_acked, h_client, h_slots, h_cache, h_closed,
          s_built, s_config, s_domains, s_roots, s_addresses, s_web_pages,
          s_asked, s_answer, x_context, x_last,
          q_queue, q_taken, q_log, q_dead,
          p_max, p_launcher, p_proc, p_lqueue, p_pool, p_submitted,
          p_finished, p_stop, p_calls, p_enq, p_last,
          f_in, f_out, c_run, c_exit,
          i_discovered, i_scope, i_pc, i_db, i_marked, i_plugins, i_visited,
          i_todo, i_queue, i_adds,
          m_clock, m_objects, m_audits, m_cache, m_last,
          r_plugins, r_asked, r_answer,
          o_enabled, o_disabled, o_parsed, o_last>>

\* The variables of the audit coordinator and its workers' call queue.
auditVars == <<registered, max_links, phase, stored, stage_mark,
               plugin_finished, current_stage, is_report_started,
               followed_links, show_max_links_warning, expecting_ack,
               msg_queue, calls, acks_due, notified, renotified,
               links_admitted, links_dropped, warnings_sent, reports_started,
               stop_sent, last>>

\* The variables of one worker process running _bootstrap.
bootVars == <<b_inline, b_served, b_alive, b_exit, b_call, b_trace, b_queue,
              b_acked>>

\* The variables of the HTTP client API, the slots and the network cache.
httpVars == <<h_client, h_slots, h_cache, h_closed>>

\* The variables of the audit scope.
scopeVars == <<s_built, s_config, s_domains, s_roots, s_addresses,
               s_web_pages, s_asked, s_answer>>

\* The variables of the execution context of the orchestrator process.
ctxVars == <<x_context, x_last>>

\* The variables of the plugin contexts sending messages.
msgVars == <<q_queue, q_taken, q_log, q_dead>>

\* The variables of the process manager, its launcher and the pool.
pmVars == <<p_max, p_launcher, p_proc, p_lqueue, p_pool, p_submitted,
            p_finished, p_stop, p_calls, p_enq, p_last>>

\* The components settled first.
earlyVars == <<auditVars, bootVars, httpVars, scopeVars>>

\* The variables of the pathname checks and of the command line launcher.
pathVars == <<f_in, f_out>>
cliVars == <<c_run, c_exit>>
lastVars == <<pathVars, cliVars>>

\* The variables of the discovery loop of __dispatch_msg.
internVars == <<i_discovered, i_scope, i_pc, i_db, i_marked, i_plugins,
                i_visited, i_todo, i_queue, i_adds>>
\* The variables of the audit manager.
mgrVars == <<m_clock, m_objects, m_audits, m_cache, m_last>>
\* The variables of the plugin registry.
regVars == <<r_plugins, r_asked, r_answer>>
\* The variables of the command line parser.
optVars == <<o_enabled, o_disabled, o_parsed, o_last>>
newVars == <<internVars, mgrVars, regVars, optVars>>

\* The variables of the remaining components.
laterVars == <<ctxVars, msgVars, pmVars, lastVars, newVars>>

\* Frame of every coordinator step: the other components do not move.
OthersIdle == UNCHANGED <<bootVars, httpVars, scopeVars, laterVars>>

\* ---------------------------------------------------------------- helpers
Min2(a, b) == IF a < b THEN a ELSE b

\* Saturating increment of a history counter (0, 1, "2 or more").
Bump(n) == Min2(n + 1, 2)

\* The value of F at v, with v evaluated once.
With(v, F(_)) == CHOOSE out \in {F(x) : x \in {v}} : TRUE

Msg(type, items, plugin) == [type |-> type, items |-> items, plugin |-> plugin]

CallKeys == (Plugins \X Items) \cup {<<ReportPlugin, ReportFile>>}

RECURSIVE SumOver(_, _)
SumOver(f, S) ==
    IF S = {} THEN 0
    ELSE With(CHOOSE y \in S : TRUE,
              LAMBDA x : f[x] + With(S \ {x}, LAMBDA T : SumOver(f, T)))

TotalCalls(c) == SumOver(c, CallKeys)

\* Number of occurrences of x in sequence s.
Occurrences(s, x) == Cardinality({k \in 1..Len(s) : s[k] = x})

\* The elements of S listed in database order.
RECURSIVE ListOf(_, _)
ListOf(S, k) ==
    IF k > Len(ItemOrder) THEN <<>>
    ELSE (IF ItemOrder[k] \in S THEN <<ItemOrder[k]>> ELSE <<>>) \o ListOf(S, k + 1)

\* --------------------------------------------------------- audit database
\* database.get_pending_data(stage): stored identities not finished at stage.
PendingData(db, marks, stage) == {i \in db : marks[i] < stage}

\* database.mark_stage_finished(identity, stage)
MarkStageFinished(marks, i, stage) == [marks EXCEPT ![i] = stage]

\* ------------------------------------------------------------ the notifier
\* Notifier.notify: plugins registered for every type plus those registered
\* for the type of the data.
PluginsToNotify(reg, i) ==
    {p \in reg : AcceptsAll(p) \/ DataKind(i) \in Accepted(p)}

\* Notifier.notify: the count it returns for one data object (one per
\* send_info call, whether or not the call was dropped).
NotifyCount_PerObject(reg, i) == IF PluginsToNotify(reg, i) = {} THEN 0 ELSE 1
NotifyCount(reg, i) == Cardinality(PluginsToNotify(reg, i))

\* AuditNotifier.__run_plugin: the call is handed to the process manager
\* only if the plugin has the callback method.
Launched(reg, i) == {p \in PluginsToNotify(reg, i) : HasCallback(p)}

\* notify() over the filtered list of a DATA message.
RECURSIVE NotifyTotal(_, _)
NotifyTotal(reg, list) ==
    IF list = <<>> THEN 0
    ELSE NotifyCount(reg, Head(list)) + NotifyTotal(reg, Tail(list))

\* The process manager's pending calls after notify() over the list.
CallsAfterNotify(c, reg, list) ==
    [key \in CallKeys |->
        IF key[1] \in Plugins /\ key[2] \in Items /\ key[1] \in Launched(reg, key[2])
        THEN c[key] + Occurrences(list, key[2])
        ELSE c[key]]

\* The send_info calls notify() makes over the list, as (plugin, item) pairs.
NotifiedBy(reg, list) ==
    {key \in Plugins \X Items :
        Occurrences(list, key[2]) > 0 /\ key[1] \in PluginsToNotify(reg, key[2])}

\* Some pair gets a second send_info call when notify() runs over the list.
NotifiedAgain(n, reg, list) ==
    \E key \in NotifiedBy(reg, list) : key \in n \/ Occurrences(list, key[2]) > 1

\* Variant: a plugin of any stage counts.
IsRunnableStage_AnyStage(reg, pending, stage) ==
    \E p \in reg : \E i \in pending : p \in PluginsToNotify(reg, i)

\* AuditNotifier.is_runnable_stage: some plugin registered at this stage
\* accepts some of the pending data.
IsRunnableStage(reg, pending, stage) ==
    \E p \in reg : StageOf(p) = stage /\ \E i \in pending : p \in PluginsToNotify(reg, i)

\* ------------------------------------------------- Audit.__dispatch_msg
\* "Maximum number of links reached?"
MaxLinksReached(ml, followed) == ml > 0 /\ followed >= ml

\* Variant: the flag is never cleared.
WarningLatch_Stuck(show) == show

\* "Show a warning, but only once": the flag after the check.
WarningLatch(show) == FALSE

\* "If the plugin is not recursive, mark the data as already processed":
\* the test the code makes before mark_plugin_finished.
MarksProducer(pn) == pn # NoPlugin /\ Recursive(pn)

\* Working state of one __dispatch_msg run.
DispatchState ==
    [stored   |-> stored,
     marks    |-> stage_mark,
     pfin     |-> plugin_finished,
     followed |-> followed_links,
     show     |-> show_max_links_warning,
     warned   |-> 0,
     admitted |-> links_admitted,
     dropped  |-> links_dropped,
     dfp      |-> <<>>]

\* Body of "for data in message.message_info" for one data object d sent by
\* plugin pn (NoPlugin when the audit itself sent the message).
PrimaryStep(st, d, pn) ==
    LET isNew    == d \notin st.stored
        isLink   == isNew /\ IsUrl(d)
        followed == IF isLink THEN st.followed + 1 ELSE st.followed
    IN  IF isLink /\ MaxLinksReached(max_links, followed)
        THEN [st EXCEPT !.followed = followed,
                        !.show     = IF st.show THEN WarningLatch(st.show) ELSE st.show,
                        !.warned   = IF st.show THEN st.warned + 1 ELSE st.warned,
                        !.dropped  = TRUE]
        ELSE LET st1 == [st EXCEPT !.followed = followed,
                                   !.stored   = st.stored \cup {d},
                                   !.admitted = IF isLink THEN st.admitted + 1
                                                ELSE st.admitted]
             IN  IF InScope(d)
                 THEN [st1 EXCEPT !.pfin = IF MarksProducer(pn)
                                           THEN st1.pfin \cup {<<d, pn>>}
                                           ELSE st1.pfin,
                                  !.dfp  = Append(st1.dfp, d)]
                 ELSE [st1 EXCEPT !.marks = MarkStageFinished(st1.marks, d, MaxStage)]

RECURSIVE PrimaryLoop(_, _, _)
PrimaryLoop(st, list, pn) ==
    IF list = <<>> THEN st
    ELSE With(PrimaryStep(st, Head(list), pn),
              LAMBDA st1 : PrimaryLoop(st1, Tail(list), pn))

\* Variant: discovered data is sent to the plugins without the scope check.
DiscoveredStep_NoScope(st, d) ==
    [st EXCEPT !.stored = st.stored \cup {d}, !.dfp = Append(st.dfp, d)]

\* Interning of one newly discovered data object d: add it, then send it to
\* the plugins if in scope, else mark it as completed.
DiscoveredStep(st, d) ==
    LET st1 == [st EXCEPT !.stored = st.stored \cup {d}]
    IN  IF InScope(d)
        THEN [st1 EXCEPT !.dfp = Append(st1.dfp, d)]
        ELSE [st1 EXCEPT !.marks = MarkStageFinished(st1.marks, d, MaxStage)]

\* "while queue": breadth-first interning of one discovery list.  visited
\* holds the identities already handled in this dispatch.
RECURSIVE DiscoveryQueue(_, _, _)
DiscoveryQueue(st, visited, queue) ==
    IF queue = <<>> THEN [st |-> st, visited |-> visited]
    ELSE LET d == Head(queue) IN
         IF d \notin visited /\ d \notin st.stored
         THEN With(DiscoveredStep(st, d),
                   LAMBDA st1 : DiscoveryQueue(st1, visited \cup {d},
                                               Tail(queue) \o Discovered(d)))
         ELSE DiscoveryQueue(st, visited, Tail(queue))

\* "for data in list(data_for_plugins)": the primaries, in order.
RECURSIVE DiscoveryLoop(_, _, _)
DiscoveryLoop(st, visited, primaries) ==
    IF primaries = <<>> THEN st
    ELSE With(DiscoveryQueue(st, visited, Discovered(Head(primaries))),
              LAMBDA r : DiscoveryLoop(r.st, r.visited, Tail(primaries)))

\* The whole database pass of __dispatch_msg for a DATA message.
DispatchResult(list, pn) ==
    With(PrimaryLoop(DispatchState, list, pn),
         LAMBDA st : DiscoveryLoop(st, {st.dfp[k] : k \in 1..Len(st.dfp)}, st.dfp))

\* --------------------------------------------------- Audit.update_stage
\* "Look for the earliest stage with pending data": the scan from stage s.
\* Returns the stage reached, the stage marks written and the batch to send
\* (empty when every stage is exhausted).
\* Variant: the stage is skipped without marking its pending data.
SkippedStageMarks_Unmarked(marks, pending, s) == marks

\* "Mark all data as having finished this stage."
SkippedStageMarks(marks, pending, s) ==
    [i \in Items |-> IF i \in pending THEN MarkStageFinished(marks, i, s)[i]
                     ELSE marks[i]]

RECURSIVE StageScan(_, _, _, _)
StageScan(reg, db, marks, s) ==
    IF s > MaxStage
    THEN [stage |-> MaxStage + 1, marks |-> marks, batch |-> <<>>]
    ELSE LET pending == PendingData(db, marks, s) IN
         IF pending = {}
         THEN StageScan(reg, db, marks, s + 1)
         ELSE IF ~IsRunnableStage(reg, pending, s)
              THEN With(SkippedStageMarks(marks, pending, s),
                        LAMBDA m : StageScan(reg, db, m, s + 1))
              ELSE [stage |-> s, marks |-> marks, batch |-> ListOf(pending, 1)]

\* ReportManager.generate_reports(notifier): one start_report call per report
\* plugin; returns how many were launched.
ReportCount == Cardinality(ReportPlugins)

\* Variant: the check sits after the try block instead of in its finally.
StageCheck_SkipOnRaise(ea, raised) == ea = 0 /\ ~raised

\* Audit.acknowledge: "if not self.expecting_ack" in the finally block.  ea is
\* the counter after the decrement, raised tells whether the notifier's
\* acknowledge step raised.
StageCheck(ea, raised) == ea = 0

\* Variant: the "report started" latch is not set.
GenerateReports_NoLatch(q, ea) ==
    /\ is_report_started' = is_report_started
    /\ reports_started' = Bump(reports_started)
    /\ expecting_ack' = ea + 1 + ReportCount
    /\ calls' = [calls EXCEPT ![<<ReportPlugin, ReportFile>>] = @ + ReportCount]
    /\ msg_queue' = Append(q, Msg("ACK", <<>>, NoPlugin))

\* Audit.generate_reports: count the kickoff ACK, set the latch, launch the
\* report plugins, then send the kickoff ACK.
GenerateReports(q, ea) ==
    /\ is_report_started' = TRUE
    /\ reports_started' = Bump(reports_started)
    /\ expecting_ack' = ea + 1 + ReportCount
    /\ calls' = [calls EXCEPT ![<<ReportPlugin, ReportFile>>] = @ + ReportCount]
    /\ msg_queue' = Append(q, Msg("ACK", <<>>, NoPlugin))

\* Variant: the scan starts at the current stage.
UpdateStage_FromCurrent(q, ea) ==
    IF is_report_started
    THEN /\ msg_queue' = Append(q, Msg("STOP_AUDIT", <<>>, NoPlugin))
         /\ stop_sent' = Bump(stop_sent)
         /\ expecting_ack' = ea
         /\ UNCHANGED <<stage_mark, current_stage, is_report_started, calls,
                        reports_started>>
    ELSE \E r \in {StageScan(registered, stored, stage_mark, current_stage)} :
         /\ stage_mark' = r.marks
         /\ current_stage' = r.stage
         /\ stop_sent' = stop_sent
         /\ IF r.batch # <<>>
            THEN /\ msg_queue' = Append(q, Msg("DATA", r.batch, NoPlugin))
                 /\ expecting_ack' = ea
                 /\ UNCHANGED <<is_report_started, calls, reports_started>>
            ELSE GenerateReports(q, ea)

\* Audit.update_stage, as a relation between the state before and after.
\* q is the message queue the handler appends to, ea the ACK counter.
UpdateStage(q, ea) ==
    IF is_report_started
    THEN /\ msg_queue' = Append(q, Msg("STOP_AUDIT", <<>>, NoPlugin))
         /\ stop_sent' = Bump(stop_sent)
         /\ expecting_ack' = ea
         /\ UNCHANGED <<stage_mark, current_stage, is_report_started, calls,
                        reports_started>>
    ELSE \E r \in {StageScan(registered, stored, stage_mark, MinStage)} :
         /\ stage_mark' = r.marks
         /\ current_stage' = r.stage
         /\ stop_sent' = stop_sent
         /\ IF r.batch # <<>>
            THEN /\ msg_queue' = Append(q, Msg("DATA", r.batch, NoPlugin))
                 /\ expecting_ack' = ea
                 /\ UNCHANGED <<is_report_started, calls, reports_started>>
            ELSE GenerateReports(q, ea)

\* ------------------------------------- _bootstrap, one call in detail
\* MessagePriority.MSG_PRIORITY_LOW / MEDIUM / HIGH
PriorityLow == 0
PriorityMedium == 1
PriorityHigh == 2

\* A message as the worker builds it.  info is a pair: for CONTROL/ERROR the
\* exception message and its formatted traceback, both named by the
\* exception they come from.
BootMsg(type, info, prio) == [type |-> type, info |-> info, prio |-> prio]

DataMsg == BootMsg("DATA", <<"result", "">>, PriorityMedium)
WarningMsg == BootMsg("WARNING", <<"warnings", "">>, PriorityMedium)
ErrorMsg(e) == BootMsg("ERROR", <<e, e>>, PriorityMedium)
StopMsg == BootMsg("STOP", <<"False", "">>, PriorityMedium)

\* Variant: the ACK is sent as an urgent message.
AckMsg_Urgent == BootMsg("ACK", <<"identity", "">>, PriorityHigh)

\* PluginContext.send_ack: CONTROL/ACK with LOW priority.
AckMsg == BootMsg("ACK", <<"identity", "">>, PriorityLow)

\* Inputs of one call.
\*   func       the callback method
\*   load       "fail": loading or instancing the plugin class raised
\*   cb         the callback returned, raised an Exception, or was
\*              interrupted (KeyboardInterrupt, SystemExit, ...)
\*   warn       the call recorded warnings
\*   data_send, warn_send
\*              what sending that payload does: "ok", "exc" (building the
\*              message raised an Exception) or "exit" (put_nowait failed)
\*   dead_from  the first put of the call that finds the parent gone (every
\*              put from it on fails); NeverDead when the queue stays up
\*              (a call tries at most four puts)
PutsPerCall == 1..4
NeverDead == 5
BootInputs ==
    {in \in [func : {"recv_info", "generate_report"},
             load : {"ok", "fail"},
             cb : {"return", "raise", "fatal"},
             warn : BOOLEAN,
             data_send : {"ok", "exc", "exit"},
             warn_send : {"ok", "exc", "exit"},
             dead_from : PutsPerCall \cup {NeverDead}] :
        \* inputs the call never looks at are left at their default
        /\ in.load = "fail" => in.cb = "return"
        /\ (in.load = "fail" \/ in.func # "recv_info") => in.data_send = "ok"
        /\ ~in.warn => in.warn_send = "ok"}

\* Working state of one call: messages put so far, the exception in flight
\* ("none", "E" for class Exception, "F" for anything else) and where it
\* came from, the number of puts tried, what the last send raised, the number
\* of send_ack calls and whether CONTROL/STOP was tried.
BootStart ==
    [out |-> <<>>, exc |-> "none", cause |-> "none", puts |-> 0,
     raised |-> "none", acks |-> 0, stops |-> 0]

\* PluginContext.send_msg + send_raw_msg for one message: build the Message,
\* then put_nowait; a failed put calls exit(1), which raises SystemExit.
SendMsg(st, in, msg, payload) ==
    IF payload = "exc"
    THEN [st EXCEPT !.raised = "E"]
    ELSE IF payload = "exit" \/ st.puts + 1 >= in.dead_from
         THEN [st EXCEPT !.puts = @ + 1, !.raised = "F"]
         ELSE [st EXCEPT !.puts = @ + 1, !.raised = "none",
                         !.out = Append(@, msg)]

\* "try: send_msg(...) except Exception, e: send_msg(CONTROL/ERROR)" inside a
\* finally block: an Exception of the send is reported and swallowed, anything
\* else replaces the exception in flight.
GuardedSend(st, in, msg, payload) ==
    LET s1 == SendMsg(st, in, msg, payload) IN
    IF s1.raised = "E"
    THEN LET s2 == SendMsg(s1, in, ErrorMsg("send"), "ok") IN
         IF s2.raised = "F" THEN [s2 EXCEPT !.exc = "F"] ELSE s2
    ELSE IF s1.raised = "F" THEN [s1 EXCEPT !.exc = "F"] ELSE s1

\* Loading the class, the callback, and the finally block that sends the
\* result list (always non-empty: the input is appended) for recv_info.
BootBody(in) ==
    IF in.load = "fail"
    THEN [BootStart EXCEPT !.exc = "E", !.cause = "load"]
    ELSE LET st == [BootStart EXCEPT
                       !.exc = CASE in.cb = "return" -> "none"
                                 [] in.cb = "raise"  -> "E"
                                 [] in.cb = "fatal"  -> "F",
                       !.cause = IF in.cb = "return" THEN "none" ELSE "callback"]
         IN  IF in.func = "recv_info"
             THEN GuardedSend(st, in, DataMsg, in.data_send)
             ELSE st

\* "Send plugin warnings to the Orchestrator."
BootWarnings(st, in) ==
    IF in.warn THEN GuardedSend(st, in, WarningMsg, in.warn_send) ELSE st

\* Variant: the handler reports the Exception and lets it go on.
BootCatch_Reraise(st, in) ==
    IF st.exc = "E"
    THEN LET s1 == SendMsg(st, in, ErrorMsg(st.cause), "ok") IN
         IF s1.raised = "F" THEN [s1 EXCEPT !.exc = "F"] ELSE s1
    ELSE st

\* "except Exception, e": tell the Orchestrator there has been an error.
BootCatch(st, in) ==
    IF st.exc = "E"
    THEN LET s1 == SendMsg(st, in, ErrorMsg(st.cause), "ok") IN
         IF s1.raised = "F" THEN [s1 EXCEPT !.exc = "F"]
         ELSE [s1 EXCEPT !.exc = "none"]
    ELSE st

\* Variant: the ACK is sent only when nothing is in flight.
BootAck_NoFinally(st, in) ==
    IF st.exc # "none" THEN st
    ELSE LET s1 == SendMsg([st EXCEPT !.acks = @ + 1], in, AckMsg, "ok") IN
         IF s1.raised = "F" THEN [s1 EXCEPT !.exc = "F"] ELSE s1

\* "Send back an ACK": the finally block.
BootAck(st, in) ==
    LET s1 == SendMsg([st EXCEPT !.acks = @ + 1], in, AckMsg, "ok") IN
    IF s1.raised = "F" THEN [s1 EXCEPT !.exc = "F"] ELSE s1

\* Variant: the worker exits without telling the Orchestrator.
BootStop_Silent(st, in) ==
    [out |-> st.out, acks |-> st.acks, stops |-> 0, puts |-> st.puts,
     exit |-> IF st.exc # "none" THEN 1 ELSE 0]

\* The outermost "except:": send CONTROL/STOP, then exit(1).  Returns the
\* messages put, the send_ack and STOP attempts, the puts tried before the
\* STOP and the exit code (0: the worker returned and stays in the pool).
BootStop(st, in) ==
    IF st.exc # "none"
    THEN LET s1 == SendMsg(st, in, StopMsg, "ok") IN
         [out |-> s1.out, acks |-> st.acks, stops |-> 1, puts |-> st.puts,
          exit |-> 1]
    ELSE [out |-> st.out, acks |-> st.acks, stops |-> 0, puts |-> st.puts,
          exit |-> 0]

\* _bootstrap(context, func, argv, argd)
Bootstrap(in) ==
    BootStop(BootAck(BootCatch(BootWarnings(BootBody(in), in), in), in), in)

\* ------------------------------------------ HTTP.make_request and friends
\* Plugin processes making requests; c1 works for the first audit, c2 for the
\* second.
Clients == {"c1", "c2"}
FirstAuditClients == {"c1"}

\* URLs: a and b are on the in-scope host, x is not.
Urls == {"a", "b", "x"}
Hostname(u) == IF u = "x" THEN "evil.test" ELSE "a.test"
Hosts == {Hostname(u) : u \in Urls}
Scheme(u) == "http"
HostInScope(h) == h = "a.test"
\* HTTP_Request.is_in_scope() / "url in Config.audit_scope"
UrlInScope(u) == HostInScope(Hostname(u))

\* Concurrent connections allowed per host.
SlotCap == 1

\* The properties of the Config singleton.
ConfigProperties ==
    {"audit_name", "audit_config", "plugin_info", "plugin_name",
     "plugin_module", "plugin_class", "plugin_config", "plugin_extra_config"}

\* Evaluating "Config.<name>".
ConfigHas(name) == name \in ConfigProperties

\* What the server may answer: raw bytes and the time it took.
ServerResponses == {<<"r1", 1>>, <<"r2", 2>>}

\* A call and what the plugin passes to it.  A raw request names the host by
\* the URL it stands for and has no method or cache argument of its own.
HttpInputs ==
    {in \in [kind : {"request", "raw"},
             method : {"GET", "POST"},
             url : {"a", "x"},
             post_data : {""},
             use_cache : {"True", "False", "None"},
             callback : {"none", "continue", "cancel"}] :
        in.kind = "raw" => (in.method = "GET" /\ in.use_cache = "None")}

\* What the network does once the request is sent.
NetOutcomes ==
    {net \in [send : {"ok", "error"},
              final : Urls,
              headers : {"empty", "some"},
              download : {"ok", "error"},
              answer : ServerResponses,
              cacheable : BOOLEAN] :
        \* what is never reached is left at its default
        LET rest(n) == n.answer = <<"r1", 1>> /\ ~n.cacheable IN
        /\ net.send = "error" =>
              net.final = "a" /\ net.download = "ok" /\ net.headers = "empty" /\ rest(net)
        /\ net.download = "error" => net.headers = "empty" /\ rest(net)
        /\ net.headers = "some" => rest(net)}

\* md5("%s|%s|%s" % (method, url, post_data)) under the URL scheme.
Digest(method, url, post_data) == <<method, url, post_data>>
CacheKey(in) == <<Scheme(in.url), Digest(in.method, in.url, in.post_data)>>
CacheKeys == {CacheKey(in) : in \in {i \in HttpInputs : i.kind = "request"}}
NoEntry == <<"", 0>>

\* NetworkCache.get / NetworkCache.set
CacheGet(cache, key) == cache[key]
CacheSet(cache, key, pair) == [cache EXCEPT ![key] = pair]

\* How a call ends: an HTTP_Response, None, or the exception raised.
NoResult == [kind |-> "none", raw |-> "", elapsed |-> 0]
Raise(e) == [kind |-> e, raw |-> "", elapsed |-> 0]
Cancelled == [kind |-> "None", raw |-> "", elapsed |-> 0]
Response(raw, elapsed) == [kind |-> "response", raw |-> raw, elapsed |-> elapsed]

NoInput ==
    [kind |-> "request", method |-> "GET", url |-> "a", post_data |-> "",
     use_cache |-> "None", callback |-> "none"]

\* A process and its call: where it is, what it was asked, how it ended and
\* what it did on the way (took a slot, read the cache and what it saw there,
\* wrote the cache, sent the request, the URL the answer came from, made a Url
\* object for it).
IdleClient ==
    [pc |-> "idle", in |-> NoInput, result |-> NoResult, acquired |-> FALSE,
     cache_read |-> FALSE, seen |-> NoEntry, cache_written |-> FALSE,
     sent |-> FALSE, final |-> "none", url_obj |-> FALSE]

Done(cl, result) == [cl EXCEPT !.pc = "done", !.result = result]

\* Variant: the request is sent without a connection slot.
AwaitSlot_Skip(cl) == [cl EXCEPT !.pc = "holding"]

\* "with ConnectionSlot(request.hostname):" the call waits for a slot.
AwaitSlot(cl) == [cl EXCEPT !.pc = "waiting"]

\* make_request up to the connection slot: the scope check, then the cache.
MakeRequestBegin(in, cache) ==
    LET cl == [IdleClient EXCEPT !.in = in] IN
    IF ~UrlInScope(in.url)
    THEN Done(cl, Raise("NetworkOutOfScope"))
    ELSE IF in.use_cache # "False"
         THEN LET cached == CacheGet(cache, CacheKey(in))
                  rd == [cl EXCEPT !.cache_read = TRUE, !.seen = cached]
              IN  IF cached # NoEntry
                  THEN IF in.callback # "none"
                       \* "callback(request, url, ...)": url is not set yet
                       THEN Done(rd, Raise("UnboundLocalError"))
                       ELSE Done(rd, Response(cached[1], cached[2]))
                  ELSE AwaitSlot(rd)
         ELSE AwaitSlot(cl)

\* make_raw_request up to the connection slot: "host not in Config.audit_scope".
MakeRawRequestBegin(in) ==
    LET cl == [IdleClient EXCEPT !.in = in] IN
    IF ~ConfigHas("audit_scope")
    THEN Done(cl, Raise("AttributeError"))
    ELSE IF ~HostInScope(Hostname(in.url))
         THEN Done(cl, Raise("NetworkOutOfScope"))
         ELSE AwaitSlot(cl)

\* "use_cache is True or (use_cache is None and response.is_cacheable())"
StoresResponse(in, net) ==
    in.use_cache = "True" \/ (in.use_cache = "None" /\ net.cacheable)

\* make_request inside the connection slot.  Returns the client record and
\* the cache.
MakeRequestBody(cl, net, cache) ==
    LET in == cl.in
        s  == [cl EXCEPT !.sent = TRUE]
    IN  IF net.send = "error"
        THEN [cl |-> Done(s, Raise("NetworkException")), cache |-> cache]
        ELSE LET f == [s EXCEPT !.final = net.final] IN
        IF net.final # in.url /\ ~ConfigHas("audit_scope")
        THEN [cl |-> Done(f, Raise("AttributeError")), cache |-> cache]
        ELSE IF net.final # in.url /\ ~UrlInScope(net.final)
        THEN [cl |-> Done(f, Raise("NetworkOutOfScope")), cache |-> cache]
        ELSE IF in.callback = "cancel"
        THEN [cl |-> Done(f, Cancelled), cache |-> cache]
        ELSE LET u == [f EXCEPT !.url_obj = (net.final # in.url)] IN
             IF net.download = "error"
             THEN [cl |-> Done(u, Raise("NetworkException")), cache |-> cache]
             ELSE IF net.headers # "empty"
             \* HTTP_Response.__init__: "hasattr(headers, ...)", no such name
             THEN [cl |-> Done(u, Raise("NameError")), cache |-> cache]
             ELSE IF StoresResponse(in, net)
             THEN [cl |-> Done([u EXCEPT !.cache_written = TRUE],
                               Response(net.answer[1], net.answer[2])),
                   cache |-> CacheSet(cache, CacheKey(in), net.answer)]
             ELSE [cl |-> Done(u, Response(net.answer[1], net.answer[2])),
                   cache |-> cache]

\* make_raw_request inside the connection slot: socket errors and a closed
\* connection become NetworkException, the callback may cancel.
MakeRawRequestBody(cl, net, cache) ==
    LET s == [cl EXCEPT !.sent = TRUE] IN
    IF net.send = "error" \/ net.download = "error"
    THEN [cl |-> Done(s, Raise("NetworkException")), cache |-> cache]
    ELSE IF cl.in.callback = "cancel"
    THEN [cl |-> Done(s, Cancelled), cache |-> cache]
    ELSE [cl |-> Done(s, Response(net.answer[1], net.answer[2])), cache |-> cache]

\* Variant: the slot is given back only when a response is returned.
SlotExit_NoFinally(slots, c, h, result) ==
    IF result.kind = "response" THEN [slots EXCEPT ![h] = @ \ {c}] ELSE slots

\* Leaving the "with ConnectionSlot(...)" block, however the body ended.
SlotExit(slots, c, h, result) == [slots EXCEPT ![h] = @ \ {c}]

\* The slot manager: a slot on h is free.
SlotFree(slots, h) == Cardinality(slots[h]) < SlotCap

\* netManager.release_all_slots(audit_name)
ReleaseAllSlots(slots, clients) == [h \in Hosts |-> slots[h] \ clients]

HttpInit ==
    /\ h_client = [c \in Clients |-> IdleClient]
    /\ h_slots = [h \in Hosts |-> {}]
    /\ h_cache = [k \in CacheKeys |-> NoEntry]
    /\ h_closed = FALSE

\* ------------------------------------------------------- the audit scope
\* Strings are kept as what the code splits them into.  A dotted string
\* ("www.example.com", "10.0.0.1") is the sequence of its labels; a network
\* ("10.0.0.0/30") is a dotted string and a prefix length; a URL
\* ("http://www.example.com/") is a scheme and a dotted host.
Dotted(h) == [form |-> "dotted", host |-> h, len |-> 0]
Cidr(h, n) == [form |-> "cidr", host |-> h, len |-> n]
HttpUrl(h) == [form |-> "url", host |-> h, len |-> 0]
Junk == [form |-> "junk", host |-> <<>>, len |-> 0]

\* The decimal text of the octets used, first entry "0".
OctetText == <<"0", "1", "2", "3", "4", "5", "6", "7">>
OctetValues == 0..(Len(OctetText) - 1)
\* str(IPAddress) of the address 10.0.0.v
IPText(v) == <<"10", "0", "0", OctetText[v + 1]>>
\* IPAddress(text) parses: four decimal octets.
IsIPv4(h) == \E v \in OctetValues : h = IPText(v)
\* int(IPAddress(text)), last octet.
IPValue(h) == CHOOSE v \in OctetValues : h = IPText(v)

\* str.lower() on the labels that carry upper-case letters.
LowerLabel(l) ==
    CASE l = "WWW"     -> "www"
      [] l = "Example" -> "example"
      [] OTHER         -> l
Lower(h) == [k \in DOMAIN h |-> LowerLabel(h[k])]

\* AuditScope._re_is_domain: letters, digits, "_", "-" and "." only, so a
\* dotted quad matches as well; "/" and ":" do not.
ReIsDomain(t) == t.form = "dotted"
\* netaddr.IPAddress(target) parses.
IPAddressParses(t) == t.form = "dotted" /\ IsIPv4(t.host)
\* netaddr.IPNetwork(target) parses.
IPNetworkParses(t) == t.form \in {"dotted", "cidr"} /\ IsIPv4(t.host)
\* ParsedURL(target) parses: an absolute URL with scheme and host.
ParsedURLParses(t) == t.form = "url"

\* IPNetwork.first and IPNetwork.last, last octet: the host bits cleared
\* and set.
NetworkSize(t) == IF t.form = "cidr" THEN 2 ^ (32 - t.len) ELSE 1
NetworkFirst(t) == IPValue(t.host) - (IPValue(t.host) % NetworkSize(t))
NetworkLast(t) == NetworkFirst(t) + NetworkSize(t) - 1
\* IPNetwork.iter_hosts(): the addresses between network and broadcast.
IterHosts(t) == {IPText(v) : v \in (NetworkFirst(t) + 1)..(NetworkLast(t) - 1)}

\* The public suffixes split_hostname knows of.
PublicSuffixes == {<<"com">>, <<"co", "uk">>}
\* text ends with the labels of tail.
EndsWithLabels(h, tail) ==
    /\ Len(h) >= Len(tail)
    /\ SubSeq(h, Len(h) - Len(tail) + 1, Len(h)) = tail
\* split_hostname(hostname) -> (subdomain, domain, suffix)
SuffixOf(h) ==
    IF \E p \in PublicSuffixes : EndsWithLabels(h, p) /\ Len(h) > Len(p)
    THEN CHOOSE p \in PublicSuffixes :
            /\ EndsWithLabels(h, p) /\ Len(h) > Len(p)
            /\ \A q \in PublicSuffixes :
                  EndsWithLabels(h, q) /\ Len(h) > Len(q) => Len(q) <= Len(p)
    ELSE <<>>
split_hostname(h) ==
    IF IsIPv4(h)
    THEN [subdomain |-> <<>>, domain |-> h, suffix |-> <<>>]
    ELSE [subdomain |-> SubSeq(h, 1, Len(h) - Len(SuffixOf(h)) - 1),
          domain    |-> <<h[Len(h) - Len(SuffixOf(h))]>>,
          suffix    |-> SuffixOf(h)]

\* ".".join((a, b)); an empty string is one empty label.
DotJoin(a, b) ==
    (IF a = <<>> THEN <<"">> ELSE a) \o (IF b = <<>> THEN <<"">> ELSE b)
\* target.endswith("." + domain)
EndsWithDot(h, r) == Len(h) > Len(r) /\ EndsWithLabels(h, r)

\* DNS.get_a(domain) under a resolver.
Resolvers == {{}, {IPText(0)}, {IPText(6)}}
GetA(dns, domain) == dns

\* The targets and flags of the audit configurations explored.
ScopeHostnames ==
    {<<"example", "com">>, <<"www", "example", "com">>,
     <<"WWW", "Example", "com">>, <<"a", "www", "example", "com">>,
     <<"www", "site", "co", "uk">>}
ScopeTargets ==
    {Dotted(h) : h \in ScopeHostnames}
    \cup {Dotted(IPText(3)), Cidr(IPText(0), 30), Cidr(IPText(5), 30),
          Cidr(IPText(0), 29), HttpUrl(<<"www", "example", "com">>),
          HttpUrl(IPText(4)), Junk}
TargetLists ==
    UNION {[1..n -> ScopeTargets] : n \in 1..MaxTargets}
AuditConfigs ==
    [targets : TargetLists, include_subdomains : BOOLEAN, dns : Resolvers]
NoConfig == [targets |-> <<>>, include_subdomains |-> FALSE, dns |-> {}]

\* The strings tested for membership.
ScopeQueries ==
    ScopeTargets
    \cup {Dotted(IPText(v)) : v \in OctetValues}
    \cup {Dotted(h) : h \in {<<"mail", "example", "com">>, <<"other", "com">>,
                             <<"com">>, <<"site", "co", "uk">>,
                             <<"co", "uk">>, <<"b", "a", "www", "example", "com">>}}
    \cup {HttpUrl(IPText(1)), HttpUrl(<<"mail", "example", "com">>)}

\* AuditScope.__init__: the four sets, and add_targets' new_domains.
EmptyScope ==
    [domains |-> {}, roots |-> {}, addresses |-> {}, web_pages |-> {},
     new_domains |-> {}]

\* add_targets: a domain name target.
AddDomain(sc, t) ==
    IF Lower(t.host) \in sc.domains
    THEN sc
    ELSE [sc EXCEPT !.domains = @ \cup {Lower(t.host)},
                    !.new_domains = @ \cup {Lower(t.host)},
                    !.web_pages = @ \cup {HttpUrl(Lower(t.host))}]

\* add_targets: an IP address target.
AddAddress(sc, t) ==
    [sc EXCEPT !.addresses = @ \cup {t.host},
               !.web_pages = @ \cup {HttpUrl(t.host)}]

\* add_targets: an IP network target.
AddNetwork_Whole(sc, t) ==
    [sc EXCEPT !.addresses =
                   @ \cup {IPText(v) : v \in NetworkFirst(t)..NetworkLast(t)},
               !.web_pages =
                   @ \cup {HttpUrl(IPText(v)) :
                              v \in NetworkFirst(t)..NetworkLast(t)}]
AddNetwork(sc, t) ==
    [sc EXCEPT !.addresses = @ \cup IterHosts(t),
               !.web_pages = @ \cup {HttpUrl(a) : a \in IterHosts(t)}]

\* add_targets: a URL target.
AddUrl(sc, t) ==
    IF IsIPv4(t.host)
    THEN [sc EXCEPT !.web_pages = @ \cup {t},
                    !.addresses = @ \cup {t.host}]
    ELSE IF Lower(t.host) \in sc.domains
    THEN [sc EXCEPT !.web_pages = @ \cup {t}]
    ELSE [sc EXCEPT !.web_pages = @ \cup {t},
                    !.domains = @ \cup {Lower(t.host)},
                    !.new_domains = @ \cup {Lower(t.host)}]

\* add_targets: the body of the loop over the targets.
AddTarget(sc, t) ==
    IF ReIsDomain(t) THEN AddDomain(sc, t)
    ELSE IF IPAddressParses(t) THEN AddAddress(sc, t)
    ELSE IF IPNetworkParses(t) THEN AddNetwork(sc, t)
    ELSE IF ParsedURLParses(t) THEN AddUrl(sc, t)
    ELSE sc

RECURSIVE AddTargetList(_, _)
AddTargetList(sc, targets) ==
    IF targets = <<>> THEN sc
    ELSE AddTargetList(AddTarget(sc, Head(targets)), Tail(targets))

\* The prefixes the loop over reversed(subdomain.split(".")) records.
RECURSIVE ParentDomains(_, _)
ParentDomains(parts, prefix) ==
    IF parts = <<>> THEN {}
    ELSE {prefix} \cup ParentDomains(SubSeq(parts, 1, Len(parts) - 1),
                                     <<parts[Len(parts)]>> \o prefix)

\* What one hostname of new_domains adds as parents and as roots.
ParentsOf(h) ==
    IF split_hostname(h).subdomain # <<>>
    THEN ParentDomains(split_hostname(h).subdomain,
                       DotJoin(split_hostname(h).domain,
                               split_hostname(h).suffix))
    ELSE {}
RootsOf(h) == IF split_hostname(h).subdomain # <<>> THEN ParentsOf(h) ELSE {h}

\* add_targets: the parent domains, when subdomains are allowed.
AddParents_Always(sc, include_subdomains) ==
    [sc EXCEPT !.domains = @ \cup UNION {ParentsOf(h) : h \in sc.new_domains},
               !.roots = @ \cup UNION {RootsOf(h) : h \in sc.new_domains},
               !.new_domains =
                   @ \cup (UNION {ParentsOf(h) : h \in sc.new_domains}
                           \ (sc.roots \cup sc.domains))]
AddParents(sc, include_subdomains) ==
    IF include_subdomains
    THEN [sc EXCEPT
            !.domains = @ \cup UNION {ParentsOf(h) : h \in sc.new_domains},
            !.roots = @ \cup UNION {RootsOf(h) : h \in sc.new_domains},
            !.new_domains =
                @ \cup (UNION {ParentsOf(h) : h \in sc.new_domains}
                        \ (sc.roots \cup sc.domains))]
    ELSE sc

\* add_targets: some new domain has no address record.
CannotResolve_Never(sc, dns) == FALSE
CannotResolve(sc, dns) == \E d \in sc.new_domains : GetA(dns, d) = {}
\* add_targets: the addresses of the new domains become targets.
ResolveDomains(sc, dns) ==
    [sc EXCEPT !.addresses = @ \cup UNION {GetA(dns, d) : d \in sc.new_domains}]

\* AuditScope.add_targets(audit_config) up to the name resolution.
ParseTargets(sc, cfg) ==
    AddParents(AddTargetList([sc EXCEPT !.new_domains = {}], cfg.targets),
               cfg.include_subdomains)

\* AuditScope.__contains__(target)
Contains(sc, target) ==
    LET host == IF ParsedURLParses(target) THEN Dotted(target.host) ELSE target
    IN  IF IPAddressParses(host) THEN host.host \in sc.addresses
        ELSE IF ReIsDomain(host)
        THEN \/ Lower(host.host) \in sc.domains
             \/ \E r \in sc.roots : EndsWithDot(Lower(host.host), r)
        ELSE FALSE

ScopeInit ==
    /\ s_built = "no"
    /\ s_config = NoConfig
    /\ s_domains = {}
    /\ s_roots = {}
    /\ s_addresses = {}
    /\ s_web_pages = {}
    /\ s_asked = Junk
    /\ s_answer = FALSE

\* ------------------------------------- the process-wide plugin context
\* The arguments PluginContext.__init__ takes.
PluginContextKeywords ==
    {"orchestrator_pid", "msg_queue", "plugin_info", "audit_name",
     "audit_config"}

\* The operations of the orchestrator process that switch Config._context,
\* and the context each one installs.
ContextOf(op) ==
    CASE op = "run"          -> "audit"
      [] op = "dispatch_msg" -> "audit"
      [] op = "run_plugin"   -> "plugin"
      [] op = "ui"           -> "ui plugin"

\* Nothing has switched the context yet.
NoSwitch ==
    [op |-> "none", cfg |-> NoConfig, before |-> "orchestrator",
     during |-> "orchestrator", outcome |-> "return", database |-> FALSE,
     data_sent |-> FALSE]

\* What the try block of an operation did: the context it left installed,
\* how it ended, whether the audit database was created.
TryBlock(during, outcome, database) ==
    [during |-> during, outcome |-> outcome, database |-> database]

\* The try block of Audit.run: the audit's context, the scope, the context
\* with the scope, the plugins and managers, the database and the targets.
AuditRunTry(old, cfg, found) ==
    IF CannotResolve(ParseTargets(EmptyScope, cfg), cfg.dns)
    THEN TryBlock("audit", "RuntimeError", FALSE)
    ELSE IF "audit_scope" \notin PluginContextKeywords
    THEN TryBlock("audit", "TypeError", FALSE)
    ELSE IF ~found
    THEN TryBlock("audit", "RuntimeError", FALSE)
    ELSE TryBlock("audit", "return", TRUE)

\* The try block of Audit.dispatch_msg: the context with the scope, then
\* __dispatch_msg.
DispatchMsgTry(old, body) ==
    IF "audit_scope" \notin PluginContextKeywords
    THEN TryBlock(old, "TypeError", FALSE)
    ELSE TryBlock("audit", body, FALSE)

\* The try block of ProcessManager.run_plugin without a launcher:
\* bootstrap installs the plugin's context and exits the process when the
\* call was interrupted.
RunPluginTry(old, in) ==
    TryBlock("plugin", IF Bootstrap(in).exit = 0 THEN "return" ELSE "SystemExit",
             FALSE)

\* The try block of UINotifier.__run_plugin: the context picked for the
\* plugin, then its callback.
UIPluginTry(old, known_audit, body) ==
    TryBlock(IF known_audit THEN "ui plugin" ELSE old, body, FALSE)

\* "finally: Config._context = old_context"
RestoreContext_Never(old, try) == try.during
RestoreContext(old, try) == old

\* An operation as a whole: what it leaves in Config._context and what it
\* did.  Audit.run sends the targets once its try block has returned.
Switched(op, cfg, old, try) ==
    [context |-> RestoreContext(old, try),
     last |-> [op |-> op, cfg |-> cfg, before |-> old, during |-> try.during,
               outcome |-> try.outcome, database |-> try.database,
               data_sent |-> op = "run" /\ try.outcome = "return"]]

CtxInit ==
    /\ x_context \in {"orchestrator", "audit"}
    /\ x_last = NoSwitch

\* ------------------------------------ PluginContext.send_msg, send_raw_msg
\* The processes holding a plugin context: the Orchestrator's own process
\* (getpid() == orchestrator_pid) and a pooled worker.
Senders == {"orchestrator", "worker"}
MessageTypes == {"DATA", "RPC"}
Priorities == {PriorityLow, PriorityMedium, PriorityHigh}

\* send_raw_msg(message) from process p, the message being call n of the
\* log: dispatched at once, put in the queue, or lost with the process.
SendRawMsg_AnyProcess(p, type, prio, put_ok) ==
    IF prio >= PriorityHigh THEN "dispatched"
    ELSE IF put_ok THEN "queued" ELSE "exit"
SendRawMsg(p, type, prio, put_ok) ==
    IF prio >= PriorityHigh /\ p = "orchestrator" THEN "dispatched"
    ELSE IF put_ok THEN "queued" ELSE "exit"

\* send_msg(message_type, message_code, message_info, priority) from p.
ContextSendMsg(p, type, prio, put_ok) ==
    IF type = "RPC" /\ p = "orchestrator" THEN "rpc"
    ELSE SendRawMsg(p, type, prio, put_ok)

MsgInit ==
    /\ q_queue = <<>>
    /\ q_taken = <<>>
    /\ q_log = <<>>
    /\ q_dead = {}

\* --------------------------------- ProcessManager, launcher and pool
\* OrchestratorConfig.max_process: unset (None), or a number.
MaxProcessChoices ==
    {[set |-> FALSE, n |-> 0]} \cup {[set |-> TRUE, n |-> n] : n \in {-1, 0, 2}}
\* "self.__max_processes is not None and self.__max_processes > 0"
MultiProcess_FromZero(mp) == mp.set /\ mp.n >= 0
MultiProcess(mp) == mp.set /\ mp.n > 0

\* The items of the launcher queue: plugin calls, numbered as they are
\* made, and the stop sentinels True (wait) and False.
PluginCall(n) == [id |-> n, stop |-> "no"]
Sentinel(wait) == [id |-> 0, stop |-> wait]
WaitChoices == {"True", "False"}
\* "item is True or item is False"
IsSentinel(item) == item.stop \in WaitChoices
\* The plugin calls of a sequence of queue items, in order.
RECURSIVE CallsOf(_)
CallsOf(items) ==
    IF items = <<>> THEN <<>>
    ELSE (IF IsSentinel(Head(items)) THEN <<>> ELSE <<Head(items).id>>)
         \o CallsOf(Tail(items))

\* What a call run by bootstrap puts on the message queue, by type.
RECURSIVE TypesOf(_)
TypesOf(msgs) ==
    IF msgs = <<>> THEN <<>> ELSE <<Head(msgs).type>> \o TypesOf(Tail(msgs))

\* No run_plugin and no stop yet.
NoRun == [op |-> "none", id |-> 0, how |-> "none", out |-> <<>>, exit |-> 0]

\* PluginPoolManager.stop(wait): close or terminate the pool (join follows).
PoolStop(wait) == IF wait = "True" THEN "closed" ELSE "terminated"

\* _launcher: one turn of the consumer loop on the item taken.
LauncherTurn_Lifo(queue) ==
    [item |-> queue[Len(queue)], rest |-> SubSeq(queue, 1, Len(queue) - 1)]
LauncherTurn(queue) == [item |-> Head(queue), rest |-> Tail(queue)]

PmInit ==
    /\ p_max \in MaxProcessChoices
    /\ p_launcher = "none"
    /\ p_proc = "none"
    /\ p_lqueue = <<>>
    /\ p_pool = "none"
    /\ p_submitted = <<>>
    /\ p_finished = {}
    /\ p_stop = "no"
    /\ p_calls = 0
    /\ p_enq = <<>>
    /\ p_last = NoRun

\* ------------------------------- pathnames kept inside the plugin folder
\* A string is the sequence of its characters; a pathname is given by its
\* parts between separators and by whether it starts at the root.
Dot == <<".">>
DotDot == <<".", ".">>
PyExt == <<".", "p", "y">>
PathNames == {<<"a">>, <<"a", "b">>, <<"m">>, <<"m">> \o PyExt, Dot, DotDot}

\* The plugin folder /p/a: the folder of the descriptor file, and the
\* folder of the plugin module the FileManager keeps.
PluginFolder == <<<<"p">>, <<"a">>>>

RECURSIVE PartsUpTo(_)
PartsUpTo(n) ==
    IF n = 0 THEN {<<>>}
    ELSE PartsUpTo(n - 1)
         \cup {Append(ps, name) : ps \in PartsUpTo(n - 1), name \in PathNames}

\* The pathnames a descriptor or a plugin may give.
Pathnames == [abs : BOOLEAN, parts : PartsUpTo(MaxDepth)]

\* The pathname as the string Python holds.
RECURSIVE Text(_)
Text(parts) ==
    IF parts = <<>> THEN <<>>
    ELSE <<"/">> \o Head(parts) \o Text(Tail(parts))

\* str.startswith
StartsWith(s, prefix) ==
    Len(prefix) <= Len(s) /\ SubSeq(s, 1, Len(prefix)) = prefix

\* str.endswith
EndsWith(s, suffix) ==
    /\ Len(suffix) <= Len(s)
    /\ SubSeq(s, Len(s) - Len(suffix) + 1, Len(s)) = suffix

\* path.isabs
IsAbs(pn) == pn.abs

\* path.join(folder, pathname): an absolute pathname replaces the folder.
PathJoin(folder, pn) == IF pn.abs THEN pn.parts ELSE folder \o pn.parts

\* path.abspath of a pathname from the root: "." is dropped and ".." drops
\* the part before it, staying at the root.
RECURSIVE NormPath(_, _)
NormPath(done, parts) ==
    IF parts = <<>> THEN done
    ELSE IF Head(parts) = Dot THEN NormPath(done, Tail(parts))
    ELSE IF Head(parts) = DotDot
    THEN NormPath(IF done = <<>> THEN done
                  ELSE SubSeq(done, 1, Len(done) - 1), Tail(parts))
    ELSE NormPath(Append(done, Head(parts)), Tail(parts))
AbsPath(parts) == NormPath(<<>>, parts)

\* "if not plugin_module.endswith(".py"): plugin_module += ".py""
WithPyExt(pn) ==
    IF pn.parts = <<>> THEN [pn EXCEPT !.parts = <<PyExt>>]
    ELSE IF EndsWith(pn.parts[Len(pn.parts)], PyExt) THEN pn
    ELSE [pn EXCEPT !.parts[Len(pn.parts)] = @ \o PyExt]

\* The test both checks make on the resolved pathname.
InsideFolder(resolved, folder) == StartsWith(Text(resolved), Text(folder))

Rejected(why) == [by |-> "none", status |-> why, path |-> <<>>]
NotSanitized == Rejected("none")

\* The check of a relative or absolute pathname against the folder.
KeepInside(folder, pn) ==
    IF IsAbs(pn) THEN Rejected("ValueError: absolute")
    ELSE IF ~InsideFolder(AbsPath(PathJoin(folder, pn)), folder)
    THEN Rejected("ValueError: outside")
    ELSE [by |-> "none", status |-> "ok",
          path |-> AbsPath(PathJoin(folder, pn))]

\* FileManager.__sanitize(pathname)
Sanitize(pn) == [KeepInside(PluginFolder, pn) EXCEPT !.by = "FileManager"]

\* PluginInfo.__init__: the module pathname of the descriptor.
PluginModule(pn) ==
    [KeepInside(PluginFolder, WithPyExt(pn)) EXCEPT !.by = "PluginInfo"]

PathInit ==
    /\ f_in \in Pathnames
    /\ f_out = NotSanitized

\* ------------------------------------------ launcher.run and the CLI main
\* The proxy of an audit: none; a user name the proxy takes or refuses; no
\* user name, with a proxy that asks for none or for one.
ProxyChoices == {"none", "user accepted", "user refused", "open", "closed"}

RECURSIVE AuditsUpTo(_)
AuditsUpTo(n) ==
    IF n = 0 THEN {<<>>}
    ELSE AuditsUpTo(n - 1)
         \cup {Append(as, a) : as \in AuditsUpTo(n - 1), a \in ProxyChoices}

\* How Orchestrator.run ends: it returns, or an exception leaves it.
OrchestratorEnds ==
    {[how |-> h, code |-> 0] : h \in {"return", "Exception", "KeyboardInterrupt"}}
    \cup {[how |-> "SystemExit", code |-> c] : c \in {0, 1, 2}}

\* "if not check_auth(...)" and "if auth" of the proxy loop.
ProxyFails(a) == a \in {"user refused", "closed"}

NoLaunch ==
    [called |-> FALSE, audits |-> <<>>, ends |-> [how |-> "return", code |-> 0],
     started |-> FALSE, code |-> 0]

\* launcher.run(options, *audits): whether the Orchestrator was started and
\* the exit code returned.
LauncherRun(audits, ends) ==
    IF \E i \in 1..Len(audits) : ProxyFails(audits[i])
    THEN [called |-> TRUE, audits |-> audits, ends |-> ends,
          started |-> FALSE, code |-> 1]
    ELSE [called |-> TRUE, audits |-> audits, ends |-> ends, started |-> TRUE,
          code |-> CASE ends.how = "return" -> 0
                     [] ends.how = "Exception" -> 1
                     [] ends.how = "KeyboardInterrupt" -> 1
                     [] ends.how = "SystemExit" -> ends.code]

\* The process has not exited.
Running == [done |-> FALSE, code |-> 0]
\* "launcher.run(cmdParams, auditParams)" followed by "exit(0)"
MainExit(run) == [done |-> TRUE, code |-> 0]

CliInit ==
    /\ c_run = NoLaunch
    /\ c_exit = Running

\* --------------------------------- the discovery loop of __dispatch_msg
\* The identities of one DATA message and of what its objects discovered.
Nodes == {"a", "b", "c"}

RECURSIVE ListsUpTo(_)
ListsUpTo(n) ==
    IF n = 0 THEN {<<>>}
    ELSE ListsUpTo(n - 1)
         \cup {Append(l, d) : l \in ListsUpTo(n - 1), d \in Nodes}

\* data.discovered of every object: any lists for a and b, cycles and
\* self-references included; c lists nothing, or itself and a.
DiscoveryGraphs ==
    {g \in [Nodes -> ListsUpTo(MaxDiscovered)] : g["c"] \in {<<>>, <<"c", "a">>}}

\* The messages dispatched: message_info, in order.
InternMessages == {<<"a">>, <<"a", "b">>}

Range(l) == {l[k] : k \in 1..Len(l)}

\* "for data in message.message_info": every object is added; the ones in
\* scope are kept for the plugins, the others marked as completed.
RECURSIVE PrimaryItems(_, _, _)
PrimaryItems(st, list, scope) ==
    IF list = <<>> THEN st
    ELSE PrimaryItems(
            IF Head(list) \in scope
            THEN [st EXCEPT !.db = @ \cup {Head(list)},
                            !.plugins = Append(@, Head(list))]
            ELSE [st EXCEPT !.db = @ \cup {Head(list)},
                            !.marked = @ \cup {Head(list)}],
            Tail(list), scope)

\* "data.identity not in visited and not database.has_data_key(...)"
IsNewDiscovery_Unvisited(d, visited, db) == d \notin visited
IsNewDiscovery(d, visited, db) == d \notin visited /\ d \notin db

InternInit ==
    /\ i_discovered \in DiscoveryGraphs
    /\ i_scope \in {s \in SUBSET Nodes : "a" \in s}
    /\ i_pc = "message"
    /\ i_db \in {{}, {"c"}}
    /\ i_marked = {}
    /\ i_plugins = <<>>
    /\ i_visited = {}
    /\ i_todo \in InternMessages
    /\ i_queue = <<>>
    /\ i_adds = <<>>

\* The remaining components at rest.
InternIdle ==
    /\ InternInit
    /\ i_discovered = [n \in Nodes |-> <<>>]
    /\ i_scope = Nodes
    /\ i_db = {}
    /\ i_todo = <<"a">>

\* ------------------------------------------------------ the audit manager
\* A name is the configured text, or "golismero-" and the time of creation
\* to the second.
Configured(text) == [text |-> text, stamp |-> 0]
Unnamed == Configured("")
\* Audit.generate_audit_name()
generate_audit_name(now) == [text |-> "golismero-", stamp |-> now]

\* audit_config.audit_name of the configurations explored.
ConfiguredNames == {Unnamed, Configured("x")}
AuditNames ==
    (ConfiguredNames \ {Unnamed})
    \cup {generate_audit_name(now) : now \in 0..MaxClock}

\* Audit.__init__: the name the audit goes by.
NameOf(configured, now) ==
    IF configured = Unnamed THEN generate_audit_name(now) ELSE configured

\* An Audit object and the life of its database.
NewAuditObject(name) ==
    [name |-> name, compacts |-> 0, closes |-> 0]
NoAudit == 0

\* Audit.close(): "try: database.compact() finally: database.close()"
AuditClose(obj) == [obj EXCEPT !.compacts = @ + 1, !.closes = @ + 1]

\* cacheManager.clean(audit_name)
CacheClean(cache, name) == cache \ {name}

\* AuditManager.remove_audit(name) on the manager st, where
\* netManager.release_all_slots(name) raises or not and audit.close() raises
\* or not: each "finally" runs whatever was raised before it, and what is
\* raised last is what the caller sees.
RemoveAudit_NoFinally(st, name, release_raises, close_raises) ==
    IF release_raises
    THEN [st EXCEPT !.raised = "Exception"]
    ELSE IF st.audits[name] = NoAudit
    THEN [st EXCEPT !.raised = "KeyError"]
    ELSE IF close_raises
    THEN [st EXCEPT !.objects[st.audits[name]] = AuditClose(@),
                    !.raised = "Exception"]
    ELSE [st EXCEPT !.objects[st.audits[name]] = AuditClose(@),
                    !.audits[name] = NoAudit,
                    !.cache = CacheClean(@, name),
                    !.raised = "none"]
RemoveAudit(st, name, release_raises, close_raises) ==
    IF st.audits[name] = NoAudit
    THEN [st EXCEPT !.cache = CacheClean(@, name),
                    !.raised = "KeyError"]
    ELSE [st EXCEPT !.objects[st.audits[name]] = AuditClose(@),
                    !.audits[name] = NoAudit,
                    !.cache = CacheClean(@, name),
                    !.raised = IF release_raises \/ close_raises
                               THEN "Exception" ELSE "none"]

\* AuditManager.close(): remove_audit for every registered name, whatever
\* each one raises.
RECURSIVE RemoveAll(_, _, _, _)
RemoveAll(st, names, release_raises, close_raises) ==
    IF names = {} THEN [st EXCEPT !.raised = "none"]
    ELSE LET n == CHOOSE x \in names : TRUE
         IN  RemoveAll(RemoveAudit(st, n, n \in release_raises, n \in close_raises),
                       names \ {n}, release_raises, close_raises)

MgrInit ==
    /\ m_clock = 0
    /\ m_objects = <<>>
    /\ m_audits = [n \in AuditNames |-> NoAudit]
    /\ m_cache = {}
    /\ m_last = [op |-> "init", name |-> Unnamed, raised |-> "none"]

\* ----------------------------------------------------- the plugin registry
\* Strings are sequences of characters here.
CategoryTesting == <<"t", "e", "s", "t", "i", "n", "g">>
CategoryReport == <<"r", "e", "p", "o", "r", "t">>
CategoryUI == <<"u", "i">>
CategoryGlobal == <<"g", "l", "o", "b", "a", "l">>
\* PriscillaPluginManager.CATEGORIES, its keys.
CATEGORIES == {CategoryTesting, CategoryReport, CategoryUI, CategoryGlobal}
CategoryAll == <<"a", "l", "l">>
Slash == <<"/">>

\* The plugin names find_plugins may register: category, "/", file name.
RegistryNames ==
    {c \o Slash \o <<f>> : c \in {CategoryTesting, CategoryUI}, f \in {"a", "b"}}
    \cup {CategoryReport \o Slash \o <<"a">>}

\* The categories asked for.
Queries ==
    CATEGORIES \cup {CategoryAll, <<"U", "I">>, <<"A", "l", "l">>, <<"x">>}
NoQuery == <<>>

\* str.lower(), on the upper-case letters used.
LowerChar(c) ==
    CASE c = "U" -> "u"
      [] c = "I" -> "i"
      [] c = "A" -> "a"
      [] OTHER   -> c
LowerText(s) == [k \in DOMAIN s |-> LowerChar(s[k])]

\* What a call returns: the keys of the mapping, or what was raised.
Returned(keys) == [raised |-> "none", keys |-> keys]
Raised(what) == [raised |-> what, keys |-> {}]

\* "plugin for plugin in self.__plugins if plugin[0].startswith(category)":
\* iterating a dict goes over its keys, so plugin is a name and plugin[0]
\* its first character.
FilterByCategory(plugins, prefix) ==
    {n \in plugins : StartsWith(<<n[1]>>, prefix)}

\* dict(names): every element must be a sequence of two items, key and value.
DictOf(names) ==
    IF \E n \in names : Len(n) # 2 THEN Raised("ValueError")
    ELSE Returned({<<n[1]>> : n \in names})

\* PriscillaPluginManager.get_plugins(category)
get_plugins(plugins, category) ==
    IF LowerText(category) = CategoryAll THEN Returned(plugins)
    ELSE IF LowerText(category) \notin CATEGORIES THEN Raised("KeyError")
    ELSE DictOf(FilterByCategory(plugins, LowerText(category) \o Slash))

RegInit ==
    /\ r_plugins = {}
    /\ r_asked = NoQuery
    /\ r_answer = Returned({})

\* ------------------------------------------- the plugin lists of the parser
\* The values given to --enable-plugin and --disable-plugin.
OptionValues == {"a", " a", "b", "all", "All"}
\* values.strip()
Strip(v) == IF v = " a" THEN "a" ELSE v
\* values.lower()
LowerValue(v) == IF v = "All" THEN "all" ELSE v

\* An attribute of the namespace: a list, or the None argparse stores for
\* every destination before the first option is parsed.
None == [set |-> FALSE, list |-> <<>>]
List(l) == [set |-> TRUE, list |-> l]

\* "x in list"
In(x, l) == \E k \in 1..Len(l) : l[k] = x
\* list.append(x) and list.remove(x): remove takes out the first x only.
RECURSIVE ListRemove(_, _)
ListRemove(l, x) ==
    IF l = <<>> THEN <<>>
    ELSE IF Head(l) = x THEN Tail(l)
    ELSE <<Head(l)>> \o ListRemove(Tail(l), x)

\* The body shared by EnablePluginAction.__call__ and
\* DisablePluginAction.__call__: own is the list of the option, other the
\* opposite list.  "in" on None raises TypeError.
PluginAction(own, other, values) ==
    LET v == Strip(values) IN
    IF LowerValue(v) = "all"
    THEN [own |-> List(<<"all">>), other |-> List(<<>>), raised |-> FALSE]
    ELSE IF ~own.set
    THEN [own |-> own, other |-> other, raised |-> TRUE]
    ELSE LET appended == IF In("all", own.list) THEN own
                         ELSE List(Append(own.list, v))
         IN  IF ~other.set
             THEN [own |-> appended, other |-> other, raised |-> TRUE]
             ELSE [own |-> appended,
                   other |-> IF In(v, other.list)
                             THEN List(ListRemove(other.list, v)) ELSE other,
                   raised |-> FALSE]

OptInit ==
    /\ o_enabled = None
    /\ o_disabled = None
    /\ o_parsed = 0
    /\ o_last = [op |-> "none", name |-> "", raised |-> FALSE]

NewIdle == InternIdle /\ MgrInit /\ RegInit /\ OptInit
CtxIdle == CtxInit /\ x_context = "orchestrator"
PmIdle == PmInit /\ ~p_max.set
PathIdle == PathInit /\ f_in = [abs |-> FALSE, parts |-> <<>>]
LastIdle == PathIdle /\ CliInit
LaterIdle == CtxIdle /\ MsgInit /\ PmIdle /\ LastIdle /\ NewIdle

\* ------------------------------------------------------------------ Init
NoCalls == [key \in CallKeys |-> 0]

AuditInit ==
    /\ registered \in PluginSets
    /\ max_links \in MaxLinksChoices
    /\ phase = "new"
    /\ stored = {}
    /\ stage_mark = [i \in Items |-> 0]
    /\ plugin_finished = {}
    /\ current_stage = MinStage
    /\ is_report_started = FALSE
    /\ followed_links = 0
    /\ show_max_links_warning = TRUE
    /\ expecting_ack = 0
    /\ msg_queue = <<>>
    /\ calls = NoCalls
    /\ acks_due = 0
    /\ notified = {}
    /\ renotified = FALSE
    /\ links_admitted = 0
    /\ links_dropped = FALSE
    /\ warnings_sent = 0
    /\ reports_started = 0
    /\ stop_sent = 0
    /\ last = [op |-> "init", updated |-> FALSE, raised |-> FALSE, zero |-> FALSE]

\* The worker before its first call.
NoCall ==
    [func |-> "recv_info", load |-> "ok", cb |-> "return", warn |-> FALSE,
     data_send |-> "ok", warn_send |-> "ok", dead_from |-> NeverDead]

BootInit ==
    /\ b_inline \in BOOLEAN
    /\ b_served = 0
    /\ b_alive = TRUE
    /\ b_exit = 0
    /\ b_call = NoCall
    /\ b_trace = [out |-> <<>>, acks |-> 0, stops |-> 0, puts |-> 0, exit |-> 0]
    /\ b_queue = <<>>
    /\ b_acked = {}

\* No worker is looked at in detail: the pool is the one of WorkerRun.
BootIdle == BootInit /\ b_inline = FALSE

Init == AuditInit /\ BootIdle /\ HttpInit /\ ScopeInit /\ LaterIdle

\* ------------------------------------------------------------- Audit.run
\* Databases AuditDB(name, audit_db) may open: a fresh one, or the one left
\* by an earlier, stopped audit of the same targets.  Out-of-scope data in
\* it has completed all stages.
ResumedSets == {{}, {"t"}}
\* The database of an audit stopped late: the target has finished every
\* stage and an item found since has finished none.
StoppedLate ==
    [db |-> {"t", "e"},
     marks |-> [i \in Items |-> IF i = "t" THEN MaxStage ELSE 0]]
ResumedDatabases ==
    {r \in [db : ResumedSets, marks : [Items -> 0..MaxStage]] :
        \A i \in Items :
            /\ i \notin r.db => r.marks[i] = 0
            /\ (i \in r.db /\ ~InScope(i)) => r.marks[i] = MaxStage}
    \cup {StoppedLate}

\* "Add the targets to the database, but only if they're new": the loop over
\* scope.get_targets().
RECURSIVE AddTargets(_, _)
AddTargets(db, list) ==
    IF list = <<>> THEN db
    ELSE AddTargets(IF Head(list) \in db THEN db \cup {Head(list)} ELSE db,
                    Tail(list))

\* Audit.run(), the body of its try block followed for a plugin context that
\* takes the audit scope; the context switch itself, with the context this
\* source constructs, is followed in CtxAuditRun.
Run ==
    /\ OthersIdle
    /\ phase = "new"
    /\ phase' = "running"
    /\ \E r \in ResumedDatabases :
          /\ stored' = AddTargets(r.db, Targets)
          /\ stage_mark' = r.marks
    /\ expecting_ack' = 0
    /\ msg_queue' = Append(msg_queue, Msg("DATA", Targets, NoPlugin))
    /\ last' = [op |-> "run", updated |-> FALSE, raised |-> FALSE, zero |-> FALSE]
    /\ UNCHANGED <<registered, max_links, plugin_finished, current_stage,
                   is_report_started, followed_links, show_max_links_warning,
                   calls, acks_due, notified, renotified, links_admitted, links_dropped,
                   warnings_sent, reports_started, stop_sent>>

\* ------------------------------------------------ Audit.dispatch_msg (DATA)
DispatchData ==
    /\ OthersIdle
    /\ phase = "running"
    /\ msg_queue # <<>>
    /\ Head(msg_queue).type = "DATA"
    /\ \E r \in {DispatchResult(Head(msg_queue).items, Head(msg_queue).plugin)} :
       \E c \in {CallsAfterNotify(calls, registered, r.dfp)} :
           /\ r.followed <= MaxFollowed
           /\ TotalCalls(c) + acks_due <= MaxCalls
           /\ expecting_ack + NotifyTotal(registered, r.dfp) <= MaxExpecting
           /\ stored' = r.stored
           /\ stage_mark' = r.marks
           /\ plugin_finished' = r.pfin
           /\ followed_links' = r.followed
           /\ show_max_links_warning' = r.show
           /\ warnings_sent' = Min2(warnings_sent + r.warned, 2)
           /\ links_admitted' = r.admitted
           /\ links_dropped' = r.dropped
           /\ expecting_ack' = expecting_ack + NotifyTotal(registered, r.dfp)
           /\ calls' = c
           /\ notified' = notified \cup NotifiedBy(registered, r.dfp)
           /\ renotified' = (renotified \/ NotifiedAgain(notified, registered, r.dfp))
           /\ msg_queue' = Tail(msg_queue)
           /\ last' = [op |-> "data", updated |-> FALSE, raised |-> FALSE, zero |-> FALSE]
    /\ UNCHANGED <<registered, max_links, phase, current_stage,
                   is_report_started, acks_due, reports_started, stop_sent>>

\* --------------------------------------------------- Audit.acknowledge
Acknowledge ==
    /\ OthersIdle
    /\ phase = "running"
    /\ msg_queue # <<>>
    /\ Head(msg_queue).type = "ACK"
    /\ \E raised \in BOOLEAN :
          LET ea == expecting_ack - 1 IN
          /\ last' = [op |-> "ack", updated |-> StageCheck(ea, raised),
                      raised |-> raised, zero |-> (ea = 0)]
          /\ IF StageCheck(ea, raised)
             THEN UpdateStage(Tail(msg_queue), ea)
             ELSE /\ expecting_ack' = ea
                  /\ msg_queue' = Tail(msg_queue)
                  /\ UNCHANGED <<stage_mark, current_stage, is_report_started,
                                 calls, reports_started, stop_sent>>
    /\ UNCHANGED <<registered, max_links, phase, stored, plugin_finished,
                   followed_links, show_max_links_warning, acks_due, notified, renotified,
                   links_admitted, links_dropped, warnings_sent>>

\* ------------------------------- AuditManager.dispatch_msg (STOP_AUDIT)
StopAudit ==
    /\ OthersIdle
    /\ phase = "running"
    /\ msg_queue # <<>>
    /\ Head(msg_queue).type = "STOP_AUDIT"
    /\ phase' = "closed"
    /\ msg_queue' = Tail(msg_queue)
    /\ last' = [op |-> "stop", updated |-> FALSE, raised |-> FALSE, zero |-> FALSE]
    /\ UNCHANGED <<registered, max_links, stored, stage_mark, plugin_finished,
                   current_stage, is_report_started, followed_links,
                   show_max_links_warning, expecting_ack, calls, acks_due,
                   notified, renotified, links_admitted, links_dropped, warnings_sent,
                   reports_started, stop_sent>>

\* CONTROL/ERROR messages go to the user interface; the audit ignores them.
\* So does every message for an audit that is no longer registered.
DropMessage ==
    /\ OthersIdle
    /\ msg_queue # <<>>
    /\ \/ phase = "running" /\ Head(msg_queue).type = "ERROR"
       \/ phase = "closed"
    /\ msg_queue' = Tail(msg_queue)
    /\ last' = [op |-> "drop", updated |-> FALSE, raised |-> FALSE, zero |-> FALSE]
    /\ UNCHANGED <<registered, max_links, phase, stored, stage_mark,
                   plugin_finished, current_stage, is_report_started,
                   followed_links, show_max_links_warning, expecting_ack, calls,
                   acks_due, notified, renotified, links_admitted, links_dropped,
                   warnings_sent, reports_started, stop_sent>>

\* ------------------------------------------------- _bootstrap (the worker)
\* What the body of one plugin call puts on the queue before its ACK:
\*   "ok"       the callback returned res: DATA(res + [input])
\*   "raise"    the callback raised: DATA([input]) then ERROR
\*   "loadfail" the plugin class could not be loaded: ERROR only
WorkerOutput_AckFirst(p, i, outcome, res) ==
    CASE outcome = "ok"       -> <<Msg("ACK", <<>>, NoPlugin),
                                   Msg("DATA", Append(res, i), p)>>
      [] outcome = "raise"    -> <<Msg("DATA", <<i>>, p), Msg("ERROR", <<>>, p)>>
      [] outcome = "loadfail" -> <<Msg("ERROR", <<>>, p)>>
WorkerOutput(p, i, outcome, res) ==
    CASE outcome = "ok"       -> <<Msg("DATA", Append(res, i), p)>>
      [] outcome = "raise"    -> <<Msg("DATA", <<i>>, p), Msg("ERROR", <<>>, p)>>
      [] outcome = "loadfail" -> <<Msg("ERROR", <<>>, p)>>

WorkerOnly == UNCHANGED <<registered, max_links, phase, stored, stage_mark,
                          plugin_finished, current_stage, is_report_started,
                          followed_links, show_max_links_warning, expecting_ack,
                          notified, renotified, links_admitted, links_dropped,
                          warnings_sent, reports_started, stop_sent, last,
                          bootVars, httpVars, scopeVars, laterVars>>

WorkerRun ==
    /\ \E p \in Plugins, i \in Items :
          /\ calls[<<p, i>>] > 0
          /\ \E outcome \in {"ok", "raise", "loadfail"}, res \in Results(p, i) :
                LET out == WorkerOutput(p, i, outcome, res) IN
                /\ outcome # "ok" => res = <<>>
                /\ Len(msg_queue) + Len(out) <= MaxQueue
                /\ msg_queue' = msg_queue \o out
          /\ calls' = [calls EXCEPT ![<<p, i>>] = @ - 1]
    /\ acks_due' = acks_due + 1
    /\ WorkerOnly

\* A generate_report call: nothing is sent back before the ACK.
WorkerReport ==
    /\ calls[<<ReportPlugin, ReportFile>>] > 0
    /\ calls' = [calls EXCEPT ![<<ReportPlugin, ReportFile>>] = @ - 1]
    /\ acks_due' = acks_due + 1
    /\ UNCHANGED msg_queue
    /\ WorkerOnly

\* "Send back an ACK": the finally block of _bootstrap.
WorkerAck ==
    /\ acks_due > 0
    /\ Len(msg_queue) < MaxQueue
    /\ acks_due' = acks_due - 1
    /\ msg_queue' = Append(msg_queue, Msg("ACK", <<>>, NoPlugin))
    /\ UNCHANGED calls
    /\ WorkerOnly

Next ==
    \/ Run
    \/ DispatchData
    \/ Acknowledge
    \/ StopAudit
    \/ DropMessage
    \/ WorkerRun
    \/ WorkerReport
    \/ WorkerAck

Spec == Init /\ [][Next]_vars

\* The orchestrator's consumer loop keeps taking messages off the queue and
\* the pool keeps running the calls it was given.
FairSpec ==
    /\ Spec
    /\ WF_vars(Run)
    /\ WF_vars(DispatchData)
    /\ WF_vars(Acknowledge)
    /\ WF_vars(StopAudit)
    /\ WF_vars(DropMessage)
    /\ WF_vars(WorkerRun)
    /\ WF_vars(WorkerReport)
    /\ WF_vars(WorkerAck)

\* --------------------------------------------- one worker, call by call
\* The audit is not started: only the worker and the queue move.
AuditIdle == AuditInit /\ registered = {} /\ max_links = 0

\* The components settled first, at rest.
EarlyIdle == AuditIdle /\ BootIdle /\ HttpInit /\ ScopeInit

\* PluginContext.send_raw_msg over the messages of call id, in order: an
\* urgent message sent from the Orchestrator's own process is dispatched at
\* once, every other message is put in the queue.
RECURSIVE SendRaw(_, _, _, _)
SendRaw(q, acked, msgs, id) ==
    IF msgs = <<>> THEN [queue |-> q, acked |-> acked]
    ELSE LET m == Head(msgs) IN
         IF m.prio >= PriorityHigh /\ b_inline
         THEN SendRaw(q, IF m.type = "ACK" THEN acked \cup {id} ELSE acked,
                      Tail(msgs), id)
         ELSE SendRaw(Append(q, [msg |-> m, call |-> id]), acked, Tail(msgs), id)

\* The pool hands the worker a call and the worker runs it to its end.
BootCall ==
    /\ b_alive
    /\ b_served < MaxBootCalls
    /\ \E in \in BootInputs :
       \E r \in {Bootstrap(in)} :
       \E s \in {SendRaw(b_queue, b_acked, r.out, b_served + 1)} :
          /\ Len(s.queue) <= MaxBootQueue
          /\ b_call' = in
          /\ b_trace' = r
          /\ b_queue' = s.queue
          /\ b_acked' = s.acked
          /\ b_exit' = r.exit
          /\ b_alive' = (r.exit = 0)
    /\ b_served' = b_served + 1
    /\ UNCHANGED b_inline
    /\ UNCHANGED <<auditVars, httpVars, scopeVars, laterVars>>

\* The Orchestrator's consumer loop takes the next message of the queue.
BootDequeue ==
    /\ b_queue # <<>>
    /\ b_queue' = Tail(b_queue)
    /\ b_acked' = IF Head(b_queue).msg.type = "ACK"
                  THEN b_acked \cup {Head(b_queue).call}
                  ELSE b_acked
    /\ UNCHANGED <<b_inline, b_served, b_alive, b_exit, b_call, b_trace>>
    /\ UNCHANGED <<auditVars, httpVars, scopeVars, laterVars>>

BootNext == BootCall \/ BootDequeue

\* The worker's first call finds an empty queue and an idle audit.
WorkerInit == AuditIdle /\ BootInit /\ HttpInit /\ ScopeInit /\ LaterIdle

BootSpec == WorkerInit /\ [][BootNext]_vars

\* ------------------------------------------- plugins making HTTP requests
\* A plugin calls make_request or make_raw_request: the call runs up to the
\* point where it needs a connection slot.
HttpBegin(c) ==
    /\ h_client[c].pc = "idle"
    /\ \E in \in HttpInputs :
          h_client' = [h_client EXCEPT ![c] =
                          IF in.kind = "request"
                          THEN MakeRequestBegin(in, h_cache)
                          ELSE MakeRawRequestBegin(in)]
    /\ UNCHANGED <<h_slots, h_cache, h_closed>>
    /\ UNCHANGED <<auditVars, bootVars, scopeVars, laterVars>>

\* ConnectionSlot.__enter__: the slot manager grants a slot on the host.
HttpAcquire(c) ==
    /\ h_client[c].pc = "waiting"
    /\ SlotFree(h_slots, Hostname(h_client[c].in.url))
    /\ h_slots' = [h_slots EXCEPT ![Hostname(h_client[c].in.url)] = @ \cup {c}]
    /\ h_client' = [h_client EXCEPT ![c].pc = "holding", ![c].acquired = TRUE]
    /\ UNCHANGED <<h_cache, h_closed>>
    /\ UNCHANGED <<auditVars, bootVars, scopeVars, laterVars>>

\* The body of the with block, and leaving it.
HttpFinish(c) ==
    /\ h_client[c].pc = "holding"
    /\ \E net \in NetOutcomes :
       \E r \in {IF h_client[c].in.kind = "request"
                 THEN MakeRequestBody(h_client[c], net, h_cache)
                 ELSE MakeRawRequestBody(h_client[c], net, h_cache)} :
          /\ h_client' = [h_client EXCEPT ![c] = r.cl]
          /\ h_cache' = r.cache
          /\ h_slots' = SlotExit(h_slots, c, Hostname(h_client[c].in.url),
                                 r.cl.result)
    /\ UNCHANGED h_closed
    /\ UNCHANGED <<auditVars, bootVars, scopeVars, laterVars>>

\* The plugin takes the result and goes on.
HttpReturn(c) ==
    /\ h_client[c].pc = "done"
    /\ h_client' = [h_client EXCEPT ![c] = IdleClient]
    /\ UNCHANGED <<h_slots, h_cache, h_closed>>
    /\ UNCHANGED <<auditVars, bootVars, scopeVars, laterVars>>

\* AuditManager.remove_audit for the first audit: its slots are released.
HttpRemoveAudit ==
    /\ ~h_closed
    /\ h_closed' = TRUE
    /\ h_slots' = ReleaseAllSlots(h_slots, FirstAuditClients)
    /\ UNCHANGED <<h_client, h_cache>>
    /\ UNCHANGED <<auditVars, bootVars, scopeVars, laterVars>>

HttpNext ==
    \/ \E c \in Clients : HttpBegin(c)
    \/ \E c \in Clients : HttpAcquire(c)
    \/ \E c \in Clients : HttpFinish(c)
    \/ \E c \in Clients : HttpReturn(c)
    \/ HttpRemoveAudit

\* The plugins' requests with the audit and the worker protocol at rest.
NetInit == AuditIdle /\ BootIdle /\ HttpInit /\ ScopeInit /\ LaterIdle

HttpSpec == NetInit /\ [][HttpNext]_vars

\* ------------------------------------------------- building the audit scope
\* The scope object as add_targets works on it.
ScopeNow ==
    [domains |-> s_domains, roots |-> s_roots, addresses |-> s_addresses,
     web_pages |-> s_web_pages, new_domains |-> {}]

\* Audit.run: AuditScope(self.config).  The constructor raises RuntimeError
\* when a new domain cannot be resolved, and then there is no scope.
ScopeBuild ==
    /\ s_built = "no"
    /\ \E cfg \in AuditConfigs :
       \E sc \in {ParseTargets(EmptyScope, cfg)} :
          /\ s_config' = cfg
          /\ IF CannotResolve(sc, cfg.dns)
             THEN /\ s_built' = "aborted"
                  /\ UNCHANGED <<s_domains, s_roots, s_addresses, s_web_pages>>
             ELSE /\ s_built' = "yes"
                  /\ s_domains' = sc.domains
                  /\ s_roots' = sc.roots
                  /\ s_addresses' = ResolveDomains(sc, cfg.dns).addresses
                  /\ s_web_pages' = sc.web_pages
    /\ UNCHANGED <<s_asked, s_answer>>
    /\ UNCHANGED <<auditVars, bootVars, httpVars, laterVars>>

\* target in Config.audit_scope
ScopeContains ==
    /\ s_built = "yes"
    /\ \E q \in ScopeQueries :
          /\ s_asked' = q
          /\ s_answer' = Contains(ScopeNow, q)
    /\ UNCHANGED <<s_built, s_config, s_domains, s_roots, s_addresses,
                   s_web_pages>>
    /\ UNCHANGED <<auditVars, bootVars, httpVars, laterVars>>

ScopeNext == ScopeBuild \/ ScopeContains

\* The scope of one audit, with the rest of the program at rest.
TargetsInit == AuditIdle /\ BootIdle /\ HttpInit /\ ScopeInit /\ LaterIdle

ScopeSpec == TargetsInit /\ [][ScopeNext]_vars

\* ------------------------------------------- switching the plugin context
\* One operation of the orchestrator process runs from start to end.
CtxStep(r) ==
    /\ x_context' = r.context
    /\ x_last' = r.last
    /\ UNCHANGED <<earlyVars, msgVars, pmVars, lastVars, newVars>>

\* Audit.run(), once per audit: the next audit starts after other work of
\* the orchestrator.
CtxAuditRun ==
    /\ x_last.op # "run"
    /\ \E cfg \in AuditConfigs, found \in BOOLEAN :
        CtxStep(Switched("run", cfg, x_context,
                         AuditRunTry(x_context, cfg, found)))

\* Audit.dispatch_msg(message)
CtxDispatchMsg ==
    \E body \in {"return", "Exception"} :
        CtxStep(Switched("dispatch_msg", NoConfig, x_context,
                         DispatchMsgTry(x_context, body)))

\* ProcessManager.run_plugin(context, func, argv, argd) without a launcher
CtxRunPlugin ==
    \E in \in BootInputs :
        CtxStep(Switched("run_plugin", NoConfig, x_context,
                         RunPluginTry(x_context, in)))

\* UINotifier.__run_plugin(plugin, method, payload)
CtxUIPlugin ==
    \E known_audit \in BOOLEAN, body \in {"return", "Exception"} :
        CtxStep(Switched("ui", NoConfig, x_context,
                         UIPluginTry(x_context, known_audit, body)))

CtxNext == CtxAuditRun \/ CtxDispatchMsg \/ CtxRunPlugin \/ CtxUIPlugin

\* The orchestrator process switching contexts, everything else at rest.
SwitchInit == EarlyIdle /\ CtxInit /\ MsgInit /\ PmIdle /\ LastIdle /\ NewIdle

CtxSpec == SwitchInit /\ [][CtxNext]_vars

\* ------------------------------------------------------ pathname checks
PathOnly ==
    UNCHANGED <<f_in, earlyVars, ctxVars, msgVars, pmVars, cliVars, newVars>>

\* FileManager.open, exists, ... : __sanitize(pathname)
FmSanitize ==
    /\ f_out = NotSanitized
    /\ f_out' = Sanitize(f_in)
    /\ PathOnly

\* PluginInfo(descriptor_file) with "Module = <pathname>"
PluginInfoInit ==
    /\ f_out = NotSanitized
    /\ f_out' = PluginModule(f_in)
    /\ PathOnly

PathNext == FmSanitize \/ PluginInfoInit

\* One pathname, checked by either of the two.
FilesInit ==
    EarlyIdle /\ CtxIdle /\ MsgInit /\ PmIdle /\ PathInit /\ CliInit /\ NewIdle

PathSpec == FilesInit /\ [][PathNext]_vars

\* ------------------------------------------------- the command line run
CliOnly ==
    UNCHANGED <<earlyVars, ctxVars, msgVars, pmVars, pathVars, newVars>>

\* launcher.run(options, *audits) called by a program embedding GoLismero.
CliRun ==
    /\ ~c_run.called
    /\ \E audits \in AuditsUpTo(MaxAudits), ends \in OrchestratorEnds :
          c_run' = LauncherRun(audits, ends)
    /\ UNCHANGED c_exit
    /\ CliOnly

\* main() of golismero.py, from the launch on: one audit, then the exit.
CliMain ==
    /\ ~c_run.called
    /\ \E a \in ProxyChoices, ends \in OrchestratorEnds :
       \E r \in {LauncherRun(<<a>>, ends)} :
          /\ c_run' = r
          /\ c_exit' = MainExit(r)
    /\ CliOnly

CliNext == CliRun \/ CliMain

CommandInit == EarlyIdle /\ LaterIdle

CliSpec == CommandInit /\ [][CliNext]_vars

\* ---------------------------------------- interning the discovery tree
InternOnly == UNCHANGED <<i_discovered, i_scope, earlyVars, ctxVars, msgVars,
                          pmVars, lastVars, mgrVars, regVars, optVars>>

\* The loop over message.message_info, and "visited = {...}".
InternPrimaries ==
    /\ i_pc = "message"
    /\ \E st \in {PrimaryItems([db |-> i_db, marked |-> i_marked, plugins |-> <<>>],
                                i_todo, i_scope)} :
          /\ i_db' = st.db
          /\ i_marked' = st.marked
          /\ i_plugins' = st.plugins
          /\ i_visited' = Range(st.plugins)
          /\ i_todo' = st.plugins
    /\ i_pc' = "loop"
    /\ UNCHANGED <<i_queue, i_adds>>
    /\ InternOnly

\* "for data in list(data_for_plugins): queue = list(data.discovered)"
InternExpand ==
    /\ i_pc = "loop"
    /\ i_queue = <<>>
    /\ i_todo # <<>>
    /\ i_queue' = i_discovered[Head(i_todo)]
    /\ i_todo' = Tail(i_todo)
    /\ UNCHANGED <<i_pc, i_db, i_marked, i_plugins, i_visited, i_adds>>
    /\ InternOnly

\* One turn of "while queue": data = queue.pop(0), interned if it is new.
InternPop ==
    /\ i_pc = "loop"
    /\ i_queue # <<>>
    /\ LET d == Head(i_queue) IN
       IF IsNewDiscovery(d, i_visited, i_db)
       THEN /\ i_db' = i_db \cup {d}
            /\ i_adds' = Append(i_adds, d)
            /\ i_visited' = i_visited \cup {d}
            /\ i_queue' = Tail(i_queue) \o i_discovered[d]
            /\ IF d \in i_scope
               THEN i_plugins' = Append(i_plugins, d) /\ UNCHANGED i_marked
               ELSE i_marked' = i_marked \cup {d} /\ UNCHANGED i_plugins
       ELSE /\ i_queue' = Tail(i_queue)
            /\ UNCHANGED <<i_db, i_adds, i_visited, i_plugins, i_marked>>
    /\ UNCHANGED <<i_pc, i_todo>>
    /\ InternOnly

\* The loops are over: "if data_for_plugins: ... notify(message)".
InternNotify ==
    /\ i_pc = "loop"
    /\ i_queue = <<>>
    /\ i_todo = <<>>
    /\ i_pc' = "notify"
    /\ UNCHANGED <<i_db, i_marked, i_plugins, i_visited, i_todo, i_queue, i_adds>>
    /\ InternOnly

InternNext == InternPrimaries \/ InternExpand \/ InternPop \/ InternNotify

\* One DATA message over one discovery graph.
DiscoveryInit ==
    /\ EarlyIdle /\ CtxIdle /\ MsgInit /\ PmIdle /\ LastIdle
    /\ InternInit /\ MgrInit /\ RegInit /\ OptInit

InternSpec == DiscoveryInit /\ [][InternNext]_vars

\* ------------------------------------------- the audits of the orchestrator
MgrOnly ==
    UNCHANGED <<earlyVars, ctxVars, msgVars, pmVars, lastVars, internVars, regVars,
                optVars>>

\* The manager as the operations of AuditManager work on it.
MgrNow ==
    [audits |-> m_audits, objects |-> m_objects, cache |-> m_cache,
     raised |-> "none"]

MgrBecomes(st) ==
    /\ m_audits' = st.audits
    /\ m_objects' = st.objects
    /\ m_cache' = st.cache

\* A second passes.
MgrTick ==
    /\ m_clock < MaxClock
    /\ m_clock' = m_clock + 1
    /\ m_last' = [op |-> "tick", name |-> Unnamed, raised |-> "none"]
    /\ UNCHANGED <<m_objects, m_audits, m_cache>>
    /\ MgrOnly

\* AuditManager.new_audit(audit_config): the audit is made, stored under
\* its name, and run; run() returns or raises, the audit is stored already.
MgrNewAudit ==
    /\ Len(m_objects) < MaxNewAudits
    /\ \E configured \in ConfiguredNames, run_raises \in BOOLEAN :
       LET name == NameOf(configured, m_clock) IN
          /\ m_objects' = Append(m_objects, NewAuditObject(name))
          /\ m_audits' = [m_audits EXCEPT ![name] = Len(m_objects) + 1]
          /\ m_last' = [op |-> "new", name |-> name,
                        raised |-> IF run_raises THEN "Exception" ELSE "none"]
    /\ UNCHANGED <<m_clock, m_cache>>
    /\ MgrOnly

\* A plugin of a registered audit makes a request: the response is cached
\* under the name of the audit.
MgrRequest ==
    /\ \E name \in AuditNames :
          /\ m_audits[name] # NoAudit
          /\ name \notin m_cache
          /\ m_cache' = m_cache \cup {name}
          /\ m_last' = [op |-> "request", name |-> name, raised |-> "none"]
    /\ UNCHANGED <<m_clock, m_objects, m_audits>>
    /\ MgrOnly

\* AuditManager.remove_audit(name)
MgrRemoveAudit ==
    /\ \E name \in AuditNames, release_raises \in BOOLEAN, close_raises \in BOOLEAN :
       \E st \in {RemoveAudit(MgrNow, name, release_raises, close_raises)} :
          /\ MgrBecomes(st)
          /\ m_last' = [op |-> "remove", name |-> name, raised |-> st.raised]
    /\ UNCHANGED m_clock
    /\ MgrOnly

\* AuditManager.dispatch_msg(message) of a CONTROL/STOP_AUDIT message:
\* "self.get_audit(message.audit_name).close()", then
\* "self.remove_audit(message.audit_name)".
MgrStopAudit ==
    /\ \E name \in AuditNames, first_raises \in BOOLEAN,
          release_raises \in BOOLEAN, close_raises \in BOOLEAN :
       IF m_audits[name] = NoAudit
       THEN /\ first_raises /\ release_raises /\ close_raises
            /\ m_last' = [op |-> "stop", name |-> name, raised |-> "KeyError"]
            /\ UNCHANGED <<m_objects, m_audits, m_cache>>
       ELSE /\ m_objects[m_audits[name]].closes < MaxCloses
            /\ \E closed \in {[MgrNow EXCEPT !.objects[m_audits[name]] = AuditClose(@)]} :
               IF first_raises
               THEN /\ MgrBecomes(closed)
                    /\ m_last' = [op |-> "stop", name |-> name,
                                  raised |-> "Exception"]
               ELSE \E st \in {RemoveAudit(closed, name, release_raises,
                                            close_raises)} :
                    /\ MgrBecomes(st)
                    /\ m_last' = [op |-> "stop", name |-> name,
                                  raised |-> st.raised]
    /\ UNCHANGED m_clock
    /\ MgrOnly

\* AuditManager.close()
MgrClose ==
    /\ \E release_raises \in {{}, AuditNames}, close_raises \in {{}, AuditNames} :
       \E st \in {RemoveAll(MgrNow, {n \in AuditNames : m_audits[n] # NoAudit},
                            release_raises, close_raises)} :
          /\ MgrBecomes(st)
          /\ m_last' = [op |-> "close", name |-> Unnamed, raised |-> "none"]
    /\ UNCHANGED m_clock
    /\ MgrOnly

MgrNext ==
    \/ MgrTick
    \/ MgrNewAudit
    \/ MgrRequest
    \/ MgrRemoveAudit
    \/ MgrStopAudit
    \/ MgrClose

\* One audit manager, with the rest of the program at rest.
ManagerInit ==
    /\ EarlyIdle /\ CtxIdle /\ MsgInit /\ PmIdle /\ LastIdle
    /\ InternIdle /\ MgrInit /\ RegInit /\ OptInit

MgrSpec == ManagerInit /\ [][MgrNext]_vars

\* ------------------------------------------------ looking up the registry
RegOnly == UNCHANGED <<earlyVars, ctxVars, msgVars, pmVars, lastVars,
                       internVars, mgrVars, optVars>>

\* find_plugins: one more descriptor file is found and its name registered.
RegFind ==
    /\ \E n \in RegistryNames \ r_plugins : r_plugins' = r_plugins \cup {n}
    /\ r_asked' = NoQuery
    /\ r_answer' = Returned({})
    /\ RegOnly

\* get_plugins(category)
RegGet ==
    /\ \E category \in Queries :
          /\ r_asked' = category
          /\ r_answer' = get_plugins(r_plugins, category)
    /\ UNCHANGED r_plugins
    /\ RegOnly

RegNext == RegFind \/ RegGet

\* One plugin registry, with the rest of the program at rest.
RegistryInit ==
    /\ EarlyIdle /\ CtxIdle /\ MsgInit /\ PmIdle /\ LastIdle
    /\ InternIdle /\ MgrInit /\ RegInit /\ OptInit

RegSpec == RegistryInit /\ [][RegNext]_vars

\* ------------------------------------------- parsing the plugin options
OptOnly == UNCHANGED <<earlyVars, ctxVars, msgVars, pmVars, lastVars,
                       internVars, mgrVars, regVars>>

\* An exception in an action ends the parsing: main() turns it into
\* parser.error.
OptParsing == o_parsed < MaxOptions /\ ~o_last.raised

\* --enable-plugin NAME
OptEnable ==
    /\ OptParsing
    /\ \E values \in OptionValues :
       \E r \in {PluginAction(o_enabled, o_disabled, values)} :
          /\ o_enabled' = r.own
          /\ o_disabled' = r.other
          /\ o_last' = [op |-> "enable", name |-> Strip(values), raised |-> r.raised]
    /\ o_parsed' = o_parsed + 1
    /\ OptOnly

\* --disable-plugin NAME
OptDisable ==
    /\ OptParsing
    /\ \E values \in OptionValues :
       \E r \in {PluginAction(o_disabled, o_enabled, values)} :
          /\ o_disabled' = r.own
          /\ o_enabled' = r.other
          /\ o_last' = [op |-> "disable", name |-> Strip(values), raised |-> r.raised]
    /\ o_parsed' = o_parsed + 1
    /\ OptOnly

OptNext == OptEnable \/ OptDisable

\* One command line, with the rest of the program at rest.
OptionsInit ==
    /\ EarlyIdle /\ CtxIdle /\ MsgInit /\ PmIdle /\ LastIdle
    /\ InternIdle /\ MgrInit /\ RegInit /\ OptInit

OptSpec == OptionsInit /\ [][OptNext]_vars

\* ------------------------------------------------- contexts sending messages
\* A live process calls send_msg on its context.  A put can only fail when it
\* is tried.
MsgSend(p) ==
    /\ p \notin q_dead
    /\ Len(q_log) < MaxSent
    /\ \E type \in MessageTypes, prio \in Priorities, put_ok \in BOOLEAN :
       \E fate \in {ContextSendMsg(p, type, prio, put_ok)} :
       \E m \in {[n |-> Len(q_log) + 1, sender |-> p, type |-> type,
                  prio |-> prio, fate |-> fate]} :
          /\ (fate \in {"rpc", "dispatched"} => put_ok)
          /\ q_log' = Append(q_log, m)
          /\ q_queue' = IF fate = "queued" THEN Append(q_queue, m) ELSE q_queue
          /\ q_dead' = IF fate = "exit" THEN q_dead \cup {p} ELSE q_dead
    /\ UNCHANGED q_taken
    /\ UNCHANGED <<earlyVars, ctxVars, pmVars, lastVars, newVars>>

\* The Orchestrator's consumer loop takes the next message of the queue.
MsgTake ==
    /\ "orchestrator" \notin q_dead
    /\ q_queue # <<>>
    /\ q_taken' = Append(q_taken, Head(q_queue))
    /\ q_queue' = Tail(q_queue)
    /\ UNCHANGED <<q_log, q_dead>>
    /\ UNCHANGED <<earlyVars, ctxVars, pmVars, lastVars, newVars>>

MsgNext == (\E p \in Senders : MsgSend(p)) \/ MsgTake

\* The contexts and the queue, everything else at rest.
QueueInit == EarlyIdle /\ LaterIdle

MsgSpec == QueueInit /\ [][MsgNext]_vars

\* ------------------------------------- running plugins in the process pool
\* The orchestrator process is up and not inside ProcessManager.stop.
PmReady == p_stop = "no" /\ p_last.exit = 0
PmOnly == UNCHANGED <<earlyVars, ctxVars, msgVars, lastVars, newVars>>

\* ProcessManager.start(): with max_process > 0 and no launcher yet, a new
\* launcher with its queue, its process and the pool the process starts.
PmStart ==
    /\ PmReady
    /\ IF p_launcher = "none" /\ MultiProcess(p_max)
       THEN /\ p_launcher' = "alive"
            /\ p_proc' = "running"
            /\ p_pool' = "running"
            /\ p_lqueue' = <<>>
            /\ p_submitted' = <<>>
            /\ p_finished' = {}
            /\ p_enq' = <<>>
       ELSE UNCHANGED <<p_launcher, p_proc, p_pool, p_lqueue, p_submitted,
                        p_finished, p_enq>>
    /\ p_last' = [NoRun EXCEPT !.op = "start"]
    /\ UNCHANGED <<p_max, p_stop, p_calls>>
    /\ PmOnly

\* ProcessManager.run_plugin(context, func, argv, argd): the call goes to the
\* launcher when there is one, and is run by bootstrap on the spot otherwise.
PmRunPlugin ==
    /\ PmReady
    /\ p_calls < MaxPmCalls
    /\ p_calls' = p_calls + 1
    /\ IF p_launcher # "none"
       THEN /\ p_lqueue' = Append(p_lqueue, PluginCall(p_calls + 1))
            /\ p_enq' = Append(p_enq, PluginCall(p_calls + 1))
            /\ p_last' = [op |-> "run_plugin", id |-> p_calls + 1,
                          how |-> "queued", out |-> <<>>, exit |-> 0]
       ELSE /\ \E in \in BootInputs :
               p_last' = [op |-> "run_plugin", id |-> p_calls + 1,
                          how |-> "inline",
                          out |-> TypesOf(Bootstrap(in).out),
                          exit |-> Bootstrap(in).exit]
            /\ UNCHANGED <<p_lqueue, p_enq>>
    /\ UNCHANGED <<p_max, p_launcher, p_proc, p_pool, p_submitted, p_finished,
                   p_stop>>
    /\ PmOnly

\* ProcessManager.stop(wait) up to the join: the sentinel is queued.
PmStopBegin ==
    /\ PmReady
    /\ \E wait \in WaitChoices :
          IF p_launcher # "none"
          THEN /\ p_lqueue' = Append(p_lqueue, Sentinel(wait))
               /\ p_enq' = Append(p_enq, Sentinel(wait))
               /\ p_stop' = wait
               /\ p_last' = [NoRun EXCEPT !.op = "stopping", !.how = wait]
          ELSE /\ p_last' = [NoRun EXCEPT !.op = "stop", !.how = "nothing"]
               /\ UNCHANGED <<p_lqueue, p_enq, p_stop>>
    /\ UNCHANGED <<p_max, p_launcher, p_proc, p_pool, p_submitted, p_finished,
                   p_calls>>
    /\ PmOnly

\* ProcessManager.stop(wait) from the join on: join() returns when the
\* launcher process has ended; join(3) returns then or after three seconds,
\* and the process is terminated.
PmStopEnd ==
    /\ p_stop \in WaitChoices
    /\ p_stop = "True" => p_proc = "ended"
    /\ p_proc' = IF p_proc = "ended" THEN "ended" ELSE "terminated"
    /\ p_launcher' = "none"
    /\ p_stop' = "no"
    /\ p_last' = [NoRun EXCEPT !.op = "stop", !.how = p_stop]
    /\ UNCHANGED <<p_max, p_lqueue, p_pool, p_submitted, p_finished, p_calls,
                   p_enq>>
    /\ PmOnly

\* _launcher: the consumer loop takes an item.  A call is handed to the
\* pool; a sentinel ends the loop and the pool is closed or terminated.
LauncherGet ==
    /\ p_proc = "running"
    /\ p_lqueue # <<>>
    /\ \E t \in {LauncherTurn(p_lqueue)} :
          /\ p_lqueue' = t.rest
          /\ IF IsSentinel(t.item)
             THEN /\ p_pool' = PoolStop(t.item.stop)
                  /\ p_proc' = "joining"
                  /\ UNCHANGED p_submitted
             ELSE /\ p_submitted' = Append(p_submitted, t.item.id)
                  /\ UNCHANGED <<p_pool, p_proc>>
    /\ UNCHANGED <<p_max, p_launcher, p_finished, p_stop, p_calls, p_enq,
                   p_last>>
    /\ PmOnly

\* _launcher: pool.join() returns and the launcher process ends.  A closed
\* pool is joined when its calls have finished, a terminated one at once.
LauncherEnd ==
    /\ p_proc = "joining"
    /\ p_pool = "closed" =>
          p_finished = {p_submitted[k] : k \in DOMAIN p_submitted}
    /\ p_proc' = "ended"
    /\ UNCHANGED <<p_max, p_launcher, p_lqueue, p_pool, p_submitted,
                   p_finished, p_stop, p_calls, p_enq, p_last>>
    /\ PmOnly

\* A worker of the pool runs a submitted call to its end.
PoolWork ==
    /\ p_pool \in {"running", "closed"}
    /\ \E k \in DOMAIN p_submitted :
          /\ p_submitted[k] \notin p_finished
          /\ p_finished' = p_finished \cup {p_submitted[k]}
    /\ UNCHANGED <<p_max, p_launcher, p_proc, p_lqueue, p_pool, p_submitted,
                   p_stop, p_calls, p_enq, p_last>>
    /\ PmOnly

PmNext ==
    \/ PmStart \/ PmRunPlugin \/ PmStopBegin \/ PmStopEnd
    \/ LauncherGet \/ LauncherEnd \/ PoolWork

\* The process manager, everything else at rest.
PoolInit == EarlyIdle /\ CtxIdle /\ MsgInit /\ PmInit /\ LastIdle /\ NewIdle

PmSpec == PoolInit /\ [][PmNext]_vars

\* ------------------------------------------------------ derived notions
\* ACK messages waiting in the queue.
AcksQueued == Cardinality({k \in 1..Len(msg_queue) : msg_queue[k].type = "ACK"})

\* ACKs the audit will still receive: one per call in flight, one per call
\* whose body has run, one per ACK already queued.
AcksOutstanding == TotalCalls(calls) + acks_due + AcksQueued

\* The step is a run of Audit.__dispatch_msg on a DATA message.
IsDataDispatch ==
    /\ phase = "running"
    /\ msg_queue # <<>>
    /\ Head(msg_queue).type = "DATA"
    /\ msg_queue' = Tail(msg_queue)

\* The step is a run of Audit.acknowledge.
IsAcknowledge ==
    /\ phase = "running"
    /\ msg_queue # <<>>
    /\ Head(msg_queue).type = "ACK"
    /\ expecting_ack' # expecting_ack \/ is_report_started' # is_report_started

\* A step the program would take is outside the explored bounds.
BoundReached ==
    \/ /\ phase = "running"
       /\ msg_queue # <<>>
       /\ Head(msg_queue).type = "DATA"
       /\ \E r \in {DispatchResult(Head(msg_queue).items, Head(msg_queue).plugin)} :
              \/ r.followed > MaxFollowed
              \/ TotalCalls(CallsAfterNotify(calls, registered, r.dfp)) + acks_due > MaxCalls
              \/ expecting_ack + NotifyTotal(registered, r.dfp) > MaxExpecting
    \/ /\ TotalCalls(calls) - calls[<<ReportPlugin, ReportFile>>] > 0
       /\ Len(msg_queue) + 2 > MaxQueue
    \/ /\ acks_due > 0
       /\ Len(msg_queue) >= MaxQueue

\* The audit emitted CONTROL/STOP_AUDIT with no ACK outstanding.
AuditFinished == stop_sent > 0 /\ expecting_ack = 0

\* ----------------------------------------------------------------- claims

\* C1: over the whole audit no plugin is notified (send_info -> recv_info)
\* about the same data identity a second time.
C1_AtMostOncePerPlugin == ~renotified

\* C2: the count added to expecting_ack equals the number of plugin calls
\* that will send an ACK, so expecting_ack always equals the ACKs still to
\* arrive.
C2_CountMatchesAcks == phase = "running" => expecting_ack = AcksOutstanding

\* C3: under fair delivery every started audit eventually finishes its last
\* stage, runs the reports and emits STOP_AUDIT with expecting_ack = 0: once
\* a plugin call was launched for the audit, the audit eventually finishes
\* (or leaves the explored bounds).
C3_AuditEventuallyFinishes ==
    (TotalCalls(calls) > 0) ~> (AuditFinished \/ BoundReached)

\* C4: update_stage runs only when an ACK brought expecting_ack to 0, and it
\* runs every time one does, whether or not the notifier's acknowledge step
\* raised; a stage batch, a report kickoff or a STOP_AUDIT is emitted by no
\* other step.
StageEffect ==
    \/ stop_sent' # stop_sent
    \/ reports_started' # reports_started
    \/ is_report_started' # is_report_started
    \/ current_stage' # current_stage
    \/ /\ phase = "running"
       /\ Len(msg_queue') > 0
       /\ msg_queue' # msg_queue
       /\ msg_queue'[Len(msg_queue')] = Msg("DATA", msg_queue'[Len(msg_queue')].items, NoPlugin)
       /\ msg_queue'[Len(msg_queue')].type = "DATA"

C4_StageAdvanceOnlyAtZero ==
    [][/\ IsAcknowledge => (last'.updated <=> (expecting_ack - 1 = 0))
       /\ StageEffect => (IsAcknowledge /\ expecting_ack - 1 = 0 /\ last'.updated)
       /\ (last'.updated /\ last' # last) => IsAcknowledge]_vars

C4_Witness == last.op = "ack" /\ last.raised /\ last.updated

C6_MarksReachMaxStage ==
    /\ [][\A i \in Items : stage_mark'[i] >= stage_mark[i]]_vars
    /\ [](is_report_started => \A i \in stored : stage_mark[i] = MaxStage)

\* The report stage began with in-scope data in the database.
C6_Witness ==
    /\ is_report_started
    /\ reports_started = 1
    /\ \E i \in stored : InScope(i) /\ stage_mark[i] = MaxStage

\* C7: an out-of-scope item that a DATA dispatch stored is finished at every
\* stage (never pending from min_stage to max_stage) and is never sent to a
\* plugin.
OutOfScopeDone ==
    \A i \in stored : ~InScope(i) =>
        /\ \A s \in MinStage..MaxStage : i \notin PendingData(stored, stage_mark, s)
        /\ \A p \in Plugins : <<p, i>> \notin notified /\ calls[<<p, i>>] = 0

\* The dispatch stores every out-of-scope item of the message, unless it is a
\* new URL and a link budget is set.
OutOfScopeAdmitted ==
    IsDataDispatch =>
        \A k \in 1..Len(Head(msg_queue).items) :
           LET i == Head(msg_queue).items[k]
           IN  (~InScope(i) /\ ~(IsUrl(i) /\ i \notin stored /\ max_links > 0))
                  => i \in stored'

C8_MarkedIffNonRecursive ==
    [][IsDataDispatch /\ Head(msg_queue).plugin # NoPlugin =>
          \A k \in 1..Len(Head(msg_queue).items) :
             LET i == Head(msg_queue).items[k]
                 P == Head(msg_queue).plugin
             IN  (i \in stored' /\ InScope(i)) =>
                    ((<<i, P>> \in plugin_finished') <=> ~Recursive(P))]_vars

\* C9: with max_links = L > 0 exactly the first L new URL resources are
\* admitted: never more than L, and a URL is dropped only once L were
\* admitted.
C9_FirstLAdmitted ==
    max_links > 0 =>
        /\ links_admitted <= max_links
        /\ links_dropped => links_admitted = max_links

\* C10: at most one max-links warning is emitted over the life of the audit,
\* and it is emitted exactly when the first URL is dropped.
C10_WarningOnce ==
    /\ warnings_sent <= 1
    /\ (warnings_sent = 1) <=> links_dropped
    /\ show_max_links_warning <=> ~links_dropped

\* URLs were dropped in more than one DATA message, one warning was sent.
C10_Witness == links_dropped /\ followed_links >= max_links + 2 /\ warnings_sent = 1

\* Positions of the messages of a type in what the last call put.
TraceOf(types) == {k \in 1..Len(b_trace.out) : b_trace.out[k].type \in types}

\* Some put of the last call failed (send_raw_msg called exit(1)).
PutFailed ==
    \/ b_call.dead_from <= b_trace.puts + b_trace.stops
    \/ b_call.load = "ok" /\ b_call.func = "recv_info" /\ b_call.data_send = "exit"
    \/ b_call.warn /\ b_call.warn_send = "exit"

\* C11: every call the worker runs calls send_ack exactly once and the ACK has
\* LOW priority, whether the callback returned, raised or was interrupted and
\* whether or not sending the results or the warnings failed; while the queue
\* takes the put, exactly one ACK message is emitted.
C11_ExactlyOneAck ==
    b_served > 0 =>
        /\ b_trace.acks = 1
        /\ Cardinality(TraceOf({"ACK"})) <= 1
        /\ b_call.dead_from = NeverDead => Cardinality(TraceOf({"ACK"})) = 1
        /\ \A k \in TraceOf({"ACK"}) : b_trace.out[k].prio = PriorityLow

\* The callback raised, sending the warnings failed, the ACK was still sent.
C11_Witness ==
    /\ b_served > 0
    /\ b_call.load = "ok" /\ b_call.cb = "raise"
    /\ b_call.warn /\ b_call.warn_send = "exit"
    /\ Cardinality(TraceOf({"ACK"})) = 1

\* C12: the ACK of a call is put after every DATA, WARNING and ERROR message
\* of that call, the queue keeps that order, and the Orchestrator never has
\* the ACK of a call while a DATA, WARNING or ERROR message of the same call
\* is still to arrive; with a pooled worker and with inline execution alike.
C12_AckAfterData ==
    /\ \A j \in TraceOf({"ACK"}) :
          \A k \in TraceOf({"DATA", "WARNING", "ERROR"}) : k < j
    /\ \A j, k \in 1..Len(b_queue) :
          (/\ j < k
           /\ b_queue[j].call = b_queue[k].call
           /\ b_queue[j].msg.type = "ACK")
             => b_queue[k].msg.type \notin {"DATA", "WARNING", "ERROR"}
    /\ \A k \in 1..Len(b_queue) :
          b_queue[k].msg.type \in {"DATA", "WARNING", "ERROR"}
             => b_queue[k].call \notin b_acked

\* Inline execution: the ACK of a call that sent DATA has been dequeued.
C12_Witness ==
    /\ b_inline
    /\ b_served \in b_acked
    /\ TraceOf({"DATA"}) # {}
    /\ TraceOf({"ERROR"}) # {}

\* C13: an Exception raised by the callback does not leave the worker: it
\* becomes exactly one CONTROL/ERROR message carrying that exception's message
\* and traceback, no CONTROL/STOP is tried and the worker stays alive for the
\* next call (as long as no put of the call failed).
C13_ExceptionBecomesError ==
    (b_served > 0 /\ b_call.load = "ok" /\ b_call.cb = "raise" /\ ~PutFailed) =>
        /\ Cardinality({k \in TraceOf({"ERROR"}) :
                           b_trace.out[k].info = <<"callback", "callback">>}) = 1
        /\ (b_call.data_send = "ok" /\ (b_call.warn => b_call.warn_send = "ok"))
              => Cardinality(TraceOf({"ERROR"})) = 1
        /\ TraceOf({"STOP"}) = {}
        /\ b_trace.stops = 0
        /\ b_exit = 0
        /\ b_alive

\* The second call of the worker raised too and the worker is still alive.
C13_Witness ==
    /\ b_served = 2
    /\ b_alive
    /\ b_call.load = "ok" /\ b_call.cb = "raise"
    /\ TraceOf({"ERROR"}) # {}

\* The call was interrupted: the callback raised something that is not an
\* Exception, or a put (the ACK's included) failed and exit(1) was called.
FatalInterruption == (b_call.load = "ok" /\ b_call.cb = "fatal") \/ PutFailed

\* C14: the worker tries CONTROL/STOP, with payload False, and exits with
\* code 1 exactly when the call was fatally interrupted; the STOP is then the
\* last message of the call, and it is put whenever the queue is still up.
C14_StopOnlyOnFatal ==
    b_served > 0 =>
        /\ (b_trace.stops = 1) <=> (b_exit = 1)
        /\ (b_exit = 1) <=> FatalInterruption
        /\ b_alive <=> (b_exit = 0)
        /\ \A k \in TraceOf({"STOP"}) :
              /\ k = Len(b_trace.out)
              /\ b_trace.out[k].info[1] = "False"
              /\ b_trace.stops = 1
        /\ (b_exit = 1 /\ b_call.dead_from = NeverDead) => TraceOf({"STOP"}) # {}

\* The callback was interrupted; the STOP was sent after the ACK.
C14_Witness ==
    /\ b_served > 0
    /\ b_call.cb = "fatal"
    /\ TraceOf({"STOP"}) # {}
    /\ TraceOf({"ACK"}) # {}
    /\ b_exit = 1 /\ ~b_alive

\* C15: a request to a host the scope rejects raises NetworkOutOfScope without
\* taking a slot or touching the cache (make_request and make_raw_request),
\* and a make_request whose redirects end at an out-of-scope URL raises
\* NetworkOutOfScope with no Url object made, no response returned and nothing
\* stored in the cache.
C15_OutOfScopeRaises ==
    \A c \in Clients :
       LET cl == h_client[c] IN
       cl.pc = "done" =>
          /\ ~UrlInScope(cl.in.url) =>
                /\ cl.result.kind = "NetworkOutOfScope"
                /\ ~cl.acquired /\ ~cl.cache_read /\ ~cl.cache_written
          /\ (cl.final # "none" /\ ~UrlInScope(cl.final)) =>
                /\ cl.result.kind = "NetworkOutOfScope"
                /\ ~cl.url_obj /\ ~cl.cache_written

\* C16: once make_request or make_raw_request has returned or raised, the
\* call holds no connection slot, whichever way it left the slot block.
C16_SlotReleased ==
    \A c \in Clients :
       h_client[c].pc \in {"idle", "done"} => \A h \in Hosts : c \notin h_slots[h]

\* One call was cancelled by its callback, the other died of an exception
\* that is no network error; both had a slot.
C16_Witness ==
    /\ h_client["c1"].pc = "done" /\ h_client["c1"].acquired
    /\ h_client["c1"].result.kind = "None"
    /\ h_client["c2"].pc = "done" /\ h_client["c2"].acquired
    /\ h_client["c2"].result.kind = "NameError"

\* C17: on every host the slots held never exceed the per-host cap, and every
\* request in flight holds one of them (unless its audit was removed and its
\* slots released), however the requests of the audits interleave.
C17_SlotsWithinCap ==
    /\ \A h \in Hosts : Cardinality(h_slots[h]) <= SlotCap
    /\ \A c \in Clients :
          (h_client[c].pc = "holding" /\ ~(h_closed /\ c \in FirstAuditClients))
             => c \in h_slots[Hostname(h_client[c].in.url)]

\* The cap binds: one request holds the only slot of the host, the request of
\* the other audit waits for it.
C17_Witness ==
    /\ h_client["c1"].pc = "holding"
    /\ h_client["c2"].pc = "waiting"
    /\ Hostname(h_client["c1"].in.url) = Hostname(h_client["c2"].in.url)
    /\ Cardinality(h_slots[Hostname(h_client["c1"].in.url)]) = SlotCap

\* C18: a make_request for a method, URL and post data whose response is in
\* the cache, with use_cache not False, returns a response made of exactly the
\* stored raw bytes and elapsed time, takes no slot and sends nothing; with
\* use_cache False the call neither reads nor writes the cache.
C18_CacheRoundTrip ==
    /\ [][\A c \in Clients :
          LET cl == h_client'[c] IN
          (h_client[c].pc = "idle" /\ cl.pc # "idle" /\ cl.in.kind = "request"
              /\ UrlInScope(cl.in.url)) =>
             /\ (cl.in.use_cache # "False"
                    /\ CacheGet(h_cache, CacheKey(cl.in)) # NoEntry) =>
                   /\ cl.pc = "done"
                   /\ cl.result = Response(CacheGet(h_cache, CacheKey(cl.in))[1],
                                           CacheGet(h_cache, CacheKey(cl.in))[2])
                   /\ ~cl.acquired /\ ~cl.sent
             /\ cl.in.use_cache = "False" => ~cl.cache_read]_vars
    /\ [](\A c \in Clients :
            h_client[c].in.use_cache = "False" =>
               ~h_client[c].cache_read /\ ~h_client[c].cache_written)


\* ------------------------------------------------------------ C19, C20
\* The network targets of the configuration the scope was built from.
NetworkTargets ==
    {s_config.targets[k] : k \in {j \in DOMAIN s_config.targets :
                                     s_config.targets[j].form = "cidr"}}
\* The hostnames the user gave, as domain names or as hosts of URLs.
UserHostnames ==
    {Lower(s_config.targets[k].host) :
        k \in {j \in DOMAIN s_config.targets :
                  /\ s_config.targets[j].form \in {"dotted", "url"}
                  /\ ~IsIPv4(s_config.targets[j].host)}}
\* The addresses between the network address and the broadcast address.
HostAddresses(t) == {IPText(v) : v \in (NetworkFirst(t) + 1)..(NetworkLast(t) - 1)}
\* Some other part of the configuration brings the address into scope.
ComesFromElsewhere(a, t) ==
    \/ \E u \in NetworkTargets \ {t} : a \in HostAddresses(u)
    \/ \E k \in DOMAIN s_config.targets :
          s_config.targets[k] \in {HttpUrl(a), Dotted(a)}
    \/ a \in s_config.dns /\ s_domains # {}

\* C19: a network target contributes exactly its host addresses: each
\* address between the network address and the broadcast address is in
\* scope and has its http://<ip>/ URL among the web pages, the network and
\* broadcast addresses are in scope only when another target or a name
\* resolution brings them, and a configuration of network targets alone
\* has no other address and no other URL.
C19_CidrHostAddresses ==
    s_built = "yes" =>
        /\ \A t \in NetworkTargets :
              /\ \A a \in HostAddresses(t) :
                    /\ a \in s_addresses
                    /\ HttpUrl(a) \in s_web_pages
                    /\ s_asked = Dotted(a) => s_answer
              /\ \A a \in {IPText(NetworkFirst(t)), IPText(NetworkLast(t))} :
                    ~ComesFromElsewhere(a, t) =>
                        /\ a \notin s_addresses
                        /\ HttpUrl(a) \notin s_web_pages
                        /\ s_asked = Dotted(a) => ~s_answer
        /\ (\A k \in DOMAIN s_config.targets : s_config.targets[k].form = "cidr")
              => /\ s_addresses = UNION {HostAddresses(t) : t \in NetworkTargets}
                 /\ s_web_pages = {HttpUrl(a) : a \in s_addresses}
        /\ s_config.targets = <<Cidr(IPText(0), 30)>>
              => s_addresses = {IPText(1), IPText(2)}

\* The scope of 10.0.0.0/30 was asked for 10.0.0.2 and said yes.
C19_Witness ==
    /\ s_built = "yes"
    /\ s_config.targets = <<Cidr(IPText(0), 30)>>
    /\ s_asked = Dotted(IPText(2))
    /\ s_answer

\* The text is a public suffix or the tail of one.
IsPublicSuffix(h) == \E p \in PublicSuffixes : EndsWithLabels(p, h)
\* The parent domains of a hostname, down to its registered domain.
AncestorSuffixes(h) ==
    {a \in {SubSeq(h, k, Len(h)) : k \in 2..Len(h)} : ~IsPublicSuffix(a)}
\* The last membership test was about a hostname.
AskedHostname == s_asked.form = "dotted" /\ ~IsIPv4(s_asked.host)

\* C20: a hostname is in scope exactly when, lower-cased, it is a recorded
\* domain or ends with "." + r for a root r.  Without include_subdomains
\* there is no root and only the hostnames the user gave are in scope, no
\* subdomain and no parent of them.  With include_subdomains every parent
\* domain of every hostname the user gave, down to the registered domain,
\* is a root, so every name below such a parent is in scope; and every root
\* is the tail of a name the user gave.
C20_HostnameMembership ==
    s_built = "yes" =>
        /\ AskedHostname =>
              (s_answer <=>
                  \/ Lower(s_asked.host) \in s_domains
                  \/ \E r \in s_roots : EndsWithDot(Lower(s_asked.host), r))
        /\ ~s_config.include_subdomains =>
              /\ s_roots = {}
              /\ AskedHostname =>
                    (s_answer <=> Lower(s_asked.host) \in UserHostnames)
        /\ s_config.include_subdomains =>
              /\ \A h \in UserHostnames :
                    /\ AncestorSuffixes(h) \subseteq s_roots
                    /\ AncestorSuffixes(h) = {} => h \in s_roots
                    /\ \A a \in AncestorSuffixes(h) \cup {h} :
                          AskedHostname
                          /\ (Lower(s_asked.host) = a
                              \/ EndsWithDot(Lower(s_asked.host), a))
                          => s_answer
              /\ \A r \in s_roots :
                    \E k \in DOMAIN s_config.targets :
                        EndsWithLabels(Lower(s_config.targets[k].host), r)

\* With subdomains allowed and a.www.example.com as the only target, the
\* sibling mail.example.com was tested and found in scope.
C20_Witness ==
    /\ s_built = "yes"
    /\ s_config.include_subdomains
    /\ s_config.targets = <<Dotted(<<"a", "www", "example", "com">>)>>
    /\ s_asked = Dotted(<<"mail", "example", "com">>)
    /\ s_answer

\* ------------------------------------------------------------ C21 .. C30
\* The configuration names a domain, as a target or as the host of a URL.
HasDomainTarget(cfg) ==
    \E k \in DOMAIN cfg.targets :
        \/ cfg.targets[k].form = "dotted"
        \/ cfg.targets[k].form = "url" /\ ~IsIPv4(cfg.targets[k].host)

\* C21: when a domain to be resolved has neither an A nor an AAAA record,
\* Audit.run ends with the RuntimeError of add_targets, no database has been
\* created, no DATA message has been sent, and Config._context is the
\* context it was before the call.
C21_UnresolvedDomainAborts ==
    (/\ x_last.op = "run"
     /\ HasDomainTarget(x_last.cfg)
     /\ x_last.cfg.dns = {})
    => /\ x_last.outcome = "RuntimeError"
       /\ ~x_last.database
       /\ ~x_last.data_sent
       /\ x_context = x_last.before

\* Audit.run was called under the audit's own caller with the target
\* www.example.com, which did not resolve.
C21_Witness ==
    /\ x_last.op = "run"
    /\ x_last.cfg.targets = <<Dotted(<<"www", "example", "com">>)>>
    /\ x_last.cfg.dns = {}
    /\ x_last.outcome = "RuntimeError"
    /\ x_last.before = "orchestrator"

\* The messages of the log with the given fate.
Fated(fate) == {k \in DOMAIN q_log : q_log[k].fate = fate}
\* The messages that went through the queue, in the order they leave it.
Queued == q_taken \o q_queue

\* C22 (as stated): an urgent message of the orchestrator process is
\* dispatched at once and never queued; every other message, of whatever
\* process and priority, is put in the queue (the put succeeding).
C22_OnlyUrgentLocalBypasses ==
    \A k \in DOMAIN q_log :
        IF q_log[k].prio >= PriorityHigh /\ q_log[k].sender = "orchestrator"
        THEN q_log[k].fate = "dispatched"
        ELSE q_log[k].fate \in {"queued", "exit"}

\* C22 (amended): send_msg in the orchestrator process executes an RPC
\* request at once whatever its priority and dispatches any other urgent
\* message at once; neither is queued.  Every other message is put in the
\* queue, unless the put fails and the sender exits.  The queue holds
\* exactly the queued messages in the order they were sent.
C22_LocalRpcAndUrgentBypass ==
    /\ \A k \in DOMAIN q_log :
          q_log[k].fate =
              IF q_log[k].sender = "orchestrator" /\ q_log[k].type = "RPC"
              THEN "rpc"
              ELSE IF q_log[k].sender = "orchestrator"
                      /\ q_log[k].prio >= PriorityHigh
              THEN "dispatched"
              ELSE IF q_log[k].sender \in q_dead
                      /\ \A j \in DOMAIN q_log :
                            j > k => q_log[j].sender # q_log[k].sender
              THEN "exit"
              ELSE "queued"
    /\ {Queued[k].n : k \in DOMAIN Queued} = Fated("queued")
    /\ \A j, k \in DOMAIN Queued : j < k => Queued[j].n < Queued[k].n

\* The orchestrator process sent an urgent DATA message, dispatched at once,
\* and the worker an urgent one that went through the queue behind an
\* earlier message of the worker.
C22_Witness ==
    /\ \E k \in Fated("dispatched") : q_log[k].type = "DATA"
    /\ \E j, k \in DOMAIN q_taken :
          /\ j < k
          /\ q_taken[j].sender = "worker"
          /\ q_taken[k].sender = "worker"
          /\ q_taken[k].prio = PriorityHigh

\* a is the beginning of b.
IsPrefix(a, b) == Len(a) <= Len(b) /\ SubSeq(b, 1, Len(a)) = a
\* The numbers of a sequence of calls.
Numbers(ids) == {ids[k] : k \in DOMAIN ids}

C24_InlineOrQueued ==
    /\ [](~(p_max.set /\ p_max.n > 0) =>
              p_launcher = "none" /\ p_proc = "none" /\ p_enq = <<>>)
    /\ [][p_calls' = p_calls + 1 =>
            IF ~(p_max.set /\ p_max.n > 0)
            THEN /\ p_last'.how = "inline"
                 /\ p_last'.exit = 0 =>
                       /\ p_last'.out # <<>>
                       /\ p_last'.out[Len(p_last'.out)] = "ACK"
            ELSE p_launcher = "alive" =>
                 /\ p_last'.how = "queued"
                 /\ p_lqueue' = Append(p_lqueue, PluginCall(p_calls'))
                 /\ p_submitted' = p_submitted
                 /\ p_finished' = p_finished
                 /\ p_calls' \notin Numbers(p_submitted')
         ]_vars

\* With max_process unset a call was run inline and put DATA, then ACK.
C24_Witness ==
    /\ ~p_max.set
    /\ p_last.op = "run_plugin"
    /\ p_last.how = "inline"
    /\ p_last.out = <<"DATA", "ACK">>

\* C25: the process-wide plugin context is saved and restored around every
\* call.  Audit.run, Audit.dispatch_msg, an inline ProcessManager.run_plugin
\* and a UI plugin callback each leave Config._context the very context it
\* was before the operation, whether the operation returned or raised.
C25_ContextRestored == [][x_context' = x_context]_vars

\* An operation that installed another context and raised has ended, and the
\* context is the one from before.
C25_Witness ==
    /\ x_last.op \in {"run", "dispatch_msg", "run_plugin", "ui"}
    /\ x_last.outcome # "return"
    /\ x_last.during # x_last.before
    /\ x_context = x_last.before

\* The location is the folder or lies below it, part by part.
Within(resolved, folder) ==
    Len(resolved) >= Len(folder) /\ SubSeq(resolved, 1, Len(folder)) = folder

\* C26: a plugin descriptor's module path, and every pathname given to the
\* plugin FileManager, must resolve to a location within the plugin's own
\* folder: whatever PluginInfo or the FileManager accepts is a relative
\* pathname whose resolved location is not outside the folder, neither
\* through ".." nor in a sibling folder whose name merely starts with the
\* plugin folder's name.
C26_KeptInsideFolder ==
    f_out.by # "none" /\ f_out.status = "ok" =>
        ~f_in.abs /\ Within(f_out.path, PluginFolder)

\* Absolute pathnames, and pathnames that resolve to a folder whose name does
\* not start with the plugin folder's name, are rejected.
RejectedElsewhere ==
    f_out.by # "none" /\ f_out.status = "ok" =>
        /\ ~f_in.abs
        /\ StartsWith(Text(f_out.path), Text(PluginFolder))

\* launcher.run returns 1 when a proxy refuses the audit, without starting
\* the Orchestrator, and on an Exception or a KeyboardInterrupt; 0 when the
\* Orchestrator returns.
RunReturnsAsClaimed ==
    c_run.called =>
        /\ (\E i \in 1..Len(c_run.audits) : ProxyFails(c_run.audits[i]))
               => c_run.code = 1 /\ ~c_run.started
        /\ c_run.started /\ c_run.ends.how \in {"Exception", "KeyboardInterrupt"}
               => c_run.code = 1
        /\ c_run.started /\ c_run.ends.how = "return" => c_run.code = 0

\* C27: the process exit code is 0 for a normal run and 1 for a fatal
\* error, a user cancellation or a resolution failure: launcher.run returns
\* 1 on any Exception, on KeyboardInterrupt and on proxy authentication
\* failure (without starting the Orchestrator), and the CLI main exits with
\* the code launcher.run returned.
C27_ExitCodeOfTheRun ==
    /\ RunReturnsAsClaimed
    /\ c_exit.done => c_exit.code = c_run.code

\* The items of the database that have not finished stage s.
PendingAt(marks, s) == {i \in stored : marks[i] < s}

\* Some plugin registered at stage s takes some of the items.
AcceptedAt(items, s) ==
    \E p \in registered : StageOf(p) = s /\
        \E i \in items : AcceptsAll(p) \/ DataKind(i) \in Accepted(p)

\* update_stage has run to the scan: the ACK that brought the count to zero
\* was handled before any report was started.
ScanRan == last'.op = "ack" /\ last'.updated /\ ~is_report_started

\* C28: when update_stage sends a DATA batch it has chosen the minimum stage
\* that has pending items accepted by at least one plugin registered at that
\* stage: every lower stage had no pending items, or none a plugin of that
\* stage takes, and has them all marked finished; the batch is exactly the
\* pending set of the chosen stage; and when no stage is left the reports
\* start, so items nobody takes never block the audit.
C28_MinimumRunnableStage ==
    [][ScanRan =>
         IF current_stage' <= MaxStage
         THEN /\ msg_queue' =
                    Append(Tail(msg_queue),
                           Msg("DATA", ListOf(PendingAt(stage_mark, current_stage'), 1),
                               NoPlugin))
              /\ PendingAt(stage_mark', current_stage') =
                    PendingAt(stage_mark, current_stage')
              /\ AcceptedAt(PendingAt(stage_mark, current_stage'), current_stage')
              /\ \A s \in MinStage..(current_stage' - 1) :
                    /\ ~AcceptedAt(PendingAt(stage_mark, s), s)
                    /\ PendingAt(stage_mark', s) = {}
         ELSE /\ \A s \in MinStage..MaxStage :
                    /\ ~AcceptedAt(PendingAt(stage_mark, s), s)
                    /\ PendingAt(stage_mark', s) = {}
              /\ is_report_started'
       ]_vars

\* update_stage has sent a batch of the second stage after marking the
\* items nobody took at the first.
C28_Witness ==
    /\ last.op = "ack" /\ last.updated
    /\ current_stage = MaxStage
    /\ msg_queue # <<>>
    /\ msg_queue[Len(msg_queue)].type = "DATA"
    /\ \E i \in stored : stage_mark[i] = MinStage

\* C29: the audit's current_stage never decreases over the life of the
\* audit, even when items discovered at a later stage are pending at earlier
\* stages.
C29_StageNeverDecreases == [][current_stage' >= current_stage]_vars

\* C30: when Audit.run sends the initial DATA message, every item returned
\* by scope.get_targets() is present in the audit database.
C30_TargetsStoredBeforeData ==
    [][phase = "new" /\ phase' = "running" =>
         \A k \in 1..Len(Targets) : Targets[k] \in stored']_vars

\* The earliest stage whose pending items some plugin of that stage takes,
\* or the stage after the last.
RECURSIVE EarliestRunnable(_)
EarliestRunnable(s) ==
    IF s > MaxStage THEN MaxStage + 1
    ELSE IF AcceptedAt(PendingAt(stage_mark, s), s) THEN s
    ELSE EarliestRunnable(s + 1)

\* C29, as the code has it: update_stage scans the stages from min_stage up
\* every time, so after it current_stage is the earliest stage with pending
\* items a plugin of that stage takes, or max_stage + 1 when there is none,
\* whatever it was before.
C29_StageIsEarliestRunnable ==
    [][ScanRan => current_stage' = EarliestRunnable(MinStage)]_vars

\* The audit is back at the first stage: an earlier scan had passed it,
\* marking the item nobody took there, and went on to the second.
C29_Witness ==
    /\ last.op = "ack" /\ last.updated
    /\ ~is_report_started
    /\ current_stage = MinStage
    /\ "e" \in stored /\ stage_mark["e"] = MinStage
    /\ msg_queue # <<>>
    /\ msg_queue[Len(msg_queue)] = Msg("DATA", <<"u">>, NoPlugin)

\* ---------------------------------------------------------------- C31
\* What is left to do in the discovery loop: the primaries not yet expanded and
\* the identities not yet interned each weigh more than one list of
\* discoveries, the queue weighs its length.
NotInterned == Cardinality(Nodes \ (i_visited \cup i_db))
InternMeasure == (Len(i_todo) + NotInterned) * (MaxDiscovered + 1) + Len(i_queue)

InternTerminates ==
    (i_pc = "loop" /\ i_pc' = "loop") => InternMeasure' < InternMeasure

\* The turn of the loop on an identity that is stored or visited: it is
\* dropped from the queue and nothing else changes.
KnownIsSkipped ==
    (i_pc = "loop" /\ i_queue # <<>> /\ Head(i_queue) \in i_visited \cup i_db)
        => /\ i_queue' = Tail(i_queue)
           /\ UNCHANGED <<i_db, i_adds, i_plugins, i_marked, i_visited>>

\* The turn of the loop on a new identity: it is added, and queued for the
\* plugins when in scope, marked finished otherwise.
NewIsInterned ==
    (i_pc = "loop" /\ i_queue # <<>> /\ Head(i_queue) \notin i_visited \cup i_db)
        => LET d == Head(i_queue) IN
           /\ i_adds' = Append(i_adds, d)
           /\ d \in i_db'
           /\ IF d \in i_scope
              THEN i_plugins' = Append(i_plugins, d) /\ i_marked' = i_marked
              ELSE i_marked' = i_marked \cup {d} /\ i_plugins' = i_plugins

AddedOnce ==
    \A j, k \in 1..Len(i_adds) : i_adds[j] = i_adds[k] => j = k

\* C31: interning the discovery tree of a DATA message terminates on every
\* finite discovery graph, cycles and self-references included (every turn of
\* the loop lowers a natural-valued measure); each discovered identity is
\* added at most once per dispatch; an identity that is stored or visited is
\* neither added again, nor expanded, nor notified; a new one is queued for
\* the plugins when in scope and marked finished otherwise.
C31_InterningTerminates ==
    /\ [][InternTerminates /\ KnownIsSkipped /\ NewIsInterned]_vars
    /\ [](AddedOnce /\ InternMeasure >= 0)

\* The loop is over on a graph where every object lists itself or a primary:
\* b and c were discovered and added once, c is out of scope.
C31_Witness ==
    /\ i_pc = "notify"
    /\ i_discovered = [a |-> <<"a", "b">>, b |-> <<"a", "c">>, c |-> <<"c", "a">>]
    /\ i_adds = <<"b", "c">>
    /\ i_plugins = <<"a", "b">>
    /\ "c" \in i_marked

\* ---------------------------------------------------------------- C32
\* The targets of the configuration that are raw IPv4 literals.
RawIPv4Targets ==
    {s_config.targets[k].host : k \in {j \in 1..Len(s_config.targets) :
                                         IPAddressParses(s_config.targets[j])}}

\* C32: a target that is a valid raw IPv4 literal is recorded as an IP
\* address, is never recorded as a domain name, and is never handed to the
\* name resolution: a configuration of IPv4 literals only cannot be aborted
\* for a name that does not resolve.
C32_RawIPv4IsAnAddress ==
    /\ s_built = "yes" =>
          \A a \in RawIPv4Targets : a \in s_addresses /\ a \notin s_domains
    /\ s_built = "aborted" =>
          \E k \in 1..Len(s_config.targets) : ~IPAddressParses(s_config.targets[k])

\* ---------------------------------------------------------------- C33
\* C33: when remove_audit(name) is over, returned or raised, no audit is
\* registered under the name and the network cache holds nothing for it;
\* when no audit went by the name the call raises KeyError, the cache
\* cleaned all the same.
C33_RemoveAlwaysCleans ==
    [][\A name \in AuditNames :
         (m_last'.op = "remove" /\ m_last'.name = name) =>
            /\ m_audits'[name] = NoAudit
            /\ name \notin m_cache'
            /\ m_audits[name] = NoAudit => m_last'.raised = "KeyError"]_vars

\* Closing the audit raised inside remove_audit: the audit is gone and its
\* cache with it.
C33_Witness ==
    /\ m_last.op = "remove" /\ m_last.raised = "Exception"
    /\ m_last.name = Configured("x")
    /\ m_audits[Configured("x")] = NoAudit
    /\ m_cache = {}
    /\ Len(m_objects) = 1 /\ m_objects[1].closes = 1

\* ---------------------------------------------------------------- C34
\* DATA messages of plugin calls that are on the queue, not yet dispatched.
UndeliveredResults ==
    {k \in 1..Len(msg_queue) :
        msg_queue[k].type = "DATA" /\ msg_queue[k].plugin # NoPlugin}

\* C34: when an ACK has brought expecting_ack to 0 and update_stage has run,
\* no DATA message sent by a plugin call of the audit is still on the queue.
C34_NoResultInFlightAtZero ==
    (last.op = "ack" /\ last.zero /\ last.updated) => UndeliveredResults = {}

\* Two plugins were called, the results of a call were dispatched, and the
\* ACK that brought expecting_ack to 0 started the stage scan.
C34_Witness ==
    /\ last.op = "ack" /\ last.zero /\ last.updated
    /\ Cardinality({c[1] : c \in notified}) >= 2
    /\ "u" \in stored

PluginsOfCategory(category) ==
    {n \in r_plugins : StartsWith(n, category \o Slash)}

\* C35: get_plugins(category) returns exactly the registered plugins whose
\* name starts with "<category>/"; "all" returns every registered plugin; an
\* unknown category raises KeyError.
C35_PluginsOfTheCategory ==
    r_asked # NoQuery =>
        IF LowerText(r_asked) = CategoryAll THEN r_answer = Returned(r_plugins)
        ELSE IF LowerText(r_asked) \in CATEGORIES
        THEN r_answer = Returned(PluginsOfCategory(LowerText(r_asked)))
        ELSE r_answer = Raised("KeyError")

\* ---------------------------------------------------------------- C37
\* C37: the database of an audit is compacted and closed at most once over
\* the life of the audit, and once a CONTROL/STOP_AUDIT message for a
\* registered audit is handled the audit is no longer registered.
C37_ClosedExactlyOnce ==
    /\ \A k \in 1..Len(m_objects) :
          m_objects[k].compacts <= 1 /\ m_objects[k].closes <= 1
    /\ (m_last.op = "stop" /\ m_last.raised # "KeyError") =>
          m_audits[m_last.name] = NoAudit

\* ---------------------------------------------------------------- C38
\* C38: new_audit never replaces a registered audit: every audit made and
\* not closed since is the one registered under its name, so no two running
\* audits go by one name, unnamed audits made in the same second included.
C38_RunningAuditsDistinct ==
    \A k \in 1..Len(m_objects) :
        m_objects[k].closes = 0 => m_audits[m_objects[k].name] = k

\* ---------------------------------------------------------------- C39
\* C39: after any sequence of --enable-plugin and --disable-plugin options
\* no name is in both lists; the last option given for a name decides where
\* the name is; "all" leaves the opposite list empty.
C39_LastOptionDecides ==
    /\ \A n \in {"a", "b", "all"} :
          ~(In(n, o_enabled.list) /\ In(n, o_disabled.list))
    /\ (o_last.op = "enable" /\ LowerValue(o_last.name) = "all") =>
          o_enabled = List(<<"all">>) /\ o_disabled = List(<<>>)
    /\ (o_last.op = "disable" /\ LowerValue(o_last.name) = "all") =>
          o_disabled = List(<<"all">>) /\ o_enabled = List(<<>>)
    /\ (o_last.op = "enable" /\ LowerValue(o_last.name) # "all") =>
          ~In(o_last.name, o_disabled.list)
    /\ (o_last.op = "disable" /\ LowerValue(o_last.name) # "all") =>
          ~In(o_last.name, o_enabled.list)

\* ---------------------------------------------------------------- C40
\* C40: every address, domain and URL that get_targets() returns after
\* add_targets passes the membership test of the scope.
C40_TargetsAreInScope ==
    s_built = "yes" =>
        /\ \A a \in s_addresses : Contains(ScopeNow, Dotted(a))
        /\ \A d \in s_domains : Contains(ScopeNow, Dotted(d))
        /\ \A u \in s_web_pages : Contains(ScopeNow, u)

====
